---- MODULE Spec2Model ----
(***************************************************************************)
(* Model of the signature download endpoint of the Assemblyline UI API     *)
(* (src/al_ui/api/v4/signature.py, download_signatures): the cache / lock  *)
(* protocol around the computation, and the computation itself: duplicate  *)
(* resolution, partition into buckets, the two dependency passes and the   *)
(* assembly of the rule file.                                              *)
(*                                                                         *)
(* A signature document is a record                                        *)
(*   [rule_id, rule_version, name, type, depends]                          *)
(* where type is the list of words of the rule's type string ("global      *)
(* rule" is <<"global", "rule">>), so that str.startswith(word) is a test  *)
(* of the first word, and depends is the list of rule names the rule's     *)
(* condition refers to.  The storage key of a document is                  *)
(* "<rule_id>r.<rule_version>".                                            *)
(***************************************************************************)
EXTENDS Integers, Sequences, FiniteSets, TLC

\* ------------------------------------------------------------------------
\* Bounds of the model
\* ------------------------------------------------------------------------

\* Longest list of documents a search returns.
MaxSigs == 3

\* Rule ids are 1..MaxId.
MaxId == 3

\* Rule revisions are 1..MaxRev.
MaxRev == 3

\* Number of download_signatures requests.
NReq == 2

\* Number of change_status calls, and of add_signature calls, that run at the
\* same time.
NCalls == 2

\* Longest notification queue, and number of messages pushed to it.
MaxMsgs == 3

\* ------------------------------------------------------------------------
\* Signature documents
\* ------------------------------------------------------------------------

RuleNames == {"A", "B", "C"}

RuleTypes == {<<"rule">>, <<"private", "rule">>, <<"global", "rule">>}

Sig(rule_id, rule_version, name, type, depends) ==
    [rule_id |-> rule_id, rule_version |-> rule_version, name |-> name,
     type |-> type, depends |-> depends]

\* The storage key of a document: f"{sid}r.{rev}".
Key(s) == <<s.rule_id, s.rule_version>>

\* s['type'].startswith(word)
StartsWith(type, word) == Len(type) > 0 /\ type[1] = word

\* s['depends'] is None or len(s['depends']) == 0
NoDepends(s) == Len(s.depends) = 0

\* The set of the elements of a list.
Range(seq) == {seq[k] : k \in 1..Len(seq)}

\* The names of the documents of a list.
NamesOf(seq) == {seq[k].name : k \in 1..Len(seq)}

\* Storage holds one document per key: the documents of a search result
\* have distinct keys.
DistinctKeys(l) == \A a, b \in 1..Len(l) : a # b => Key(l[a]) # Key(l[b])

\* ------------------------------------------------------------------------
\* download_signatures: the computation between the fetch and the cache save
\* ------------------------------------------------------------------------

\* The test of line 273 left out: the duplicates would be resolved with and
\* without safe.
FetchedAlwaysDedup(query, query_hash, last_modified, safe, list) ==
    [pc |-> "dedup",
     query |-> query, query_hash |-> query_hash, last_modified |-> last_modified,
     safe |-> safe,
     signature_list |-> list,
     i |-> 1,
     rules_map |-> <<>>,
     name_map |-> {},
     duplicate_rules |-> <<>>,
     error_rules |-> <<>>,
     global_rules |-> <<>>,
     private_rules_no_dep |-> <<>>,
     private_rules_dep |-> <<>>,
     rules_no_dep |-> <<>>,
     rules_dep |-> <<>>,
     rule_file_bin |-> <<>>]

\* The locals of download_signatures right after the fetch (lines 260-271).
Fetched(query, query_hash, last_modified, safe, list) ==
    [pc |-> IF safe THEN "dedup" ELSE "partition",
     query |-> query, query_hash |-> query_hash, last_modified |-> last_modified,
     safe |-> safe,
     signature_list |-> list,
     i |-> 1,
     rules_map |-> <<>>,
     name_map |-> {},
     duplicate_rules |-> <<>>,
     error_rules |-> <<>>,
     global_rules |-> <<>>,
     private_rules_no_dep |-> <<>>,
     private_rules_dep |-> <<>>,
     rules_no_dep |-> <<>>,
     rules_dep |-> <<>>,
     rule_file_bin |-> <<>>]

\* int(s.get('meta', {}).get('rule_version', '1'))
Version(s) == s.rule_version

\* rules_map is a dict keyed by name; it is modelled as the list of its values
\* in insertion order, which is the order of rules_map.values().
MapHas(rules_map, name) == \E k \in 1..Len(rules_map) : rules_map[k].name = name

MapGet(rules_map, name) ==
    rules_map[CHOOSE k \in 1..Len(rules_map) : rules_map[k].name = name]

\* p = rules_map.get(name, {}); int(p.get('meta', {}).get('rule_version', '0'))
PVersion(rules_map, name) ==
    IF MapHas(rules_map, name) THEN Version(MapGet(rules_map, name)) ELSE 0

\* rules_map[name] = s: a new key is added last, an old key keeps its place.
MapPut(rules_map, name, s) ==
    IF MapHas(rules_map, name)
    THEN [k \in 1..Len(rules_map) |->
            IF rules_map[k].name = name THEN s ELSE rules_map[k]]
    ELSE Append(rules_map, s)

\* The comparison of line 285 turned into <=: of two documents of one name and
\* one revision the first seen would be kept.
IsDuplicateOrEqual(version, pversion) == version <= pversion

\* if version < pversion: the new document is the duplicate (line 285).
IsDuplicate(version, pversion) == version < pversion

\* One iteration of "for s in signature_list" of the safe branch (275-289).
DedupStep(d) ==
    LET s == d.signature_list[d.i]
        name == s.name
    IN  IF name = ""
        THEN [d EXCEPT !.i = @ + 1]
        ELSE IF IsDuplicate(Version(s), PVersion(d.rules_map, name))
             THEN [d EXCEPT !.duplicate_rules = Append(@, name), !.i = @ + 1]
             ELSE [d EXCEPT !.rules_map = MapPut(@, name, s), !.i = @ + 1]

\* signature_list = rules_map.values() (line 290).
DedupFinish(d) ==
    [d EXCEPT !.signature_list = d.rules_map, !.pc = "partition"]

\* The first test of the partition (294) left out: a global document would go
\* to the buckets of the standard documents.
NeverGlobal(s) == FALSE

IsGlobal(s) == StartsWith(s.type, "global")

IsPrivate(s) == ~IsGlobal(s) /\ StartsWith(s.type, "private")

\* The loop of lines 292-308: every document goes to one bucket, in the order
\* of signature_list, and the names of the global documents and of the
\* documents without dependencies are entered in name_map.
Partition(d) ==
    LET l == d.signature_list
        glob(s) == IsGlobal(s)
        pnd(s)  == IsPrivate(s) /\ NoDepends(s)
        pd(s)   == IsPrivate(s) /\ ~NoDepends(s)
        nd(s)   == ~IsGlobal(s) /\ ~IsPrivate(s) /\ NoDepends(s)
        dp(s)   == ~IsGlobal(s) /\ ~IsPrivate(s) /\ ~NoDepends(s)
    IN  [d EXCEPT !.global_rules = SelectSeq(l, glob),
                  !.private_rules_no_dep = SelectSeq(l, pnd),
                  !.private_rules_dep = SelectSeq(l, pd),
                  !.rules_no_dep = SelectSeq(l, nd),
                  !.rules_dep = SelectSeq(l, dp),
                  !.name_map = NamesOf(SelectSeq(l, glob)) \cup
                               NamesOf(SelectSeq(l, pnd)) \cup
                               NamesOf(SelectSeq(l, nd)),
                  !.pc = "sort"]

\* The sort left out: the buckets would keep the order of the fetch.
Unsorted(seq) == seq

\* An insertion that does not look at the rule ids.
InsertLast(sorted, s) == Append(sorted, s)

\* sorted(..., key=lambda k: k['meta']['rule_id']): a stable sort.
RECURSIVE SortedByRuleId(_)
RECURSIVE InsertStable(_, _)
InsertStable(sorted, s) ==
    IF sorted = <<>> THEN <<s>>
    ELSE IF sorted[Len(sorted)].rule_id <= s.rule_id THEN Append(sorted, s)
    ELSE Append(InsertStable(SubSeq(sorted, 1, Len(sorted) - 1), s),
                sorted[Len(sorted)])

SortedByRuleId(seq) ==
    IF seq = <<>> THEN <<>>
    ELSE InsertStable(SortedByRuleId(SubSeq(seq, 1, Len(seq) - 1)), seq[Len(seq)])

\* Lines 310-316: the five buckets are sorted, and the output starts with the
\* global documents followed by the private documents without dependencies.
SortBuckets(d) ==
    [d EXCEPT !.global_rules = SortedByRuleId(@),
              !.private_rules_no_dep = SortedByRuleId(@),
              !.rules_no_dep = SortedByRuleId(@),
              !.private_rules_dep = SortedByRuleId(@),
              !.rules_dep = SortedByRuleId(@),
              !.signature_list = SortedByRuleId(d.global_rules) \o
                                 SortedByRuleId(d.private_rules_no_dep),
              !.pc = "private"]

\* The test of lines 322-325 inverted: a document would be placed as soon as
\* one of its dependencies is resolved.
ReadyOnAnyResolved(r, name_map) ==
    \E k \in 1..Len(r.depends) : r.depends[k] \in name_map

\* The inner loop "for d in r['depends']": no dependency is missing from
\* name_map (lines 320-326, 347-353).
Ready(r, name_map) == \A k \in 1..Len(r.depends) : r.depends[k] \in name_map

\* One "for r in ..._rules_dep" scan (319-328, 346-355): a ready document is
\* placed and its name entered at once, so that a later document of the same
\* scan can rely on it; the others are kept, in order.
RECURSIVE Scan(_, _)
Scan(dep, acc) ==
    IF dep = <<>> THEN acc
    ELSE LET r == Head(dep)
         IN  Scan(Tail(dep),
                  IF Ready(r, acc.name_map)
                  THEN [acc EXCEPT !.name_map = @ \cup {r.name},
                                   !.placed = Append(@, r)]
                  ELSE [acc EXCEPT !.new = Append(@, r)])

ScanOf(dep, name_map) ==
    Scan(dep, [name_map |-> name_map, placed |-> <<>>, new |-> <<>>])

\* The stall test left out: a round that places nothing would be followed by
\* the same round.
NeverStalled(dep, name_map) == FALSE

\* if private_rules_dep == new_private_rules_dep (330), if rules_dep ==
\* new_rules_dep (357): the scan placed nothing.
Stalled(dep, name_map) == dep = ScanOf(dep, name_map).new

RECURSIVE Flatten(_)
Flatten(lists) ==
    IF lists = <<>> THEN <<>> ELSE Head(lists) \o Flatten(Tail(lists))

\* error_rules += [d for d in x["depends"]] for every x left (331-332).
PrivateStallReport(dep) == Flatten([k \in 1..Len(dep) |-> dep[k].depends])

\* error_rules += [x["name"] for x in rules_dep] (358).
GeneralStallReport(dep) == [k \in 1..Len(dep) |-> dep[k].name]

\* The test of lines 334 and 359 inverted: the documents left at a stall
\* would be placed with safe, and dropped without.
ForcedWhenSafe(safe, dep) == IF safe THEN dep ELSE <<>>

\* What a stall does with the documents left (334-339, 359-364): without safe
\* they are placed all the same and their names entered.
ForcedAtStall(safe, dep) == IF safe THEN <<>> ELSE dep

\* Lines 335-336 left out: the documents forced in at a stall of the private
\* pass would not have their names entered in name_map.
PrivateRoundNamesNotEntered(d) ==
    LET dep == d.private_rules_dep
        acc == ScanOf(dep, d.name_map)
        stalled == Stalled(dep, d.name_map)
        forced == IF stalled THEN ForcedAtStall(d.safe, dep) ELSE <<>>
    IN  [d EXCEPT !.name_map = acc.name_map,
                  !.signature_list = @ \o acc.placed \o forced,
                  !.error_rules = IF stalled THEN @ \o PrivateStallReport(dep) ELSE @,
                  !.private_rules_dep = IF stalled THEN <<>> ELSE acc.new]

\* One iteration of "while private_rules_dep" (317-341).
PrivateRound(d) ==
    LET dep == d.private_rules_dep
        acc == ScanOf(dep, d.name_map)
        stalled == Stalled(dep, d.name_map)
        forced == IF stalled THEN ForcedAtStall(d.safe, dep) ELSE <<>>
    IN  [d EXCEPT !.name_map = acc.name_map \cup NamesOf(forced),
                  !.signature_list = @ \o acc.placed \o forced,
                  !.error_rules = IF stalled THEN @ \o PrivateStallReport(dep) ELSE @,
                  !.private_rules_dep = IF stalled THEN <<>> ELSE acc.new]

\* The private loop is over: signature_list += rules_no_dep (343).
PrivateExit(d) ==
    [d EXCEPT !.signature_list = @ \o d.rules_no_dep, !.pc = "general"]

\* One iteration of "while rules_dep" (344-366).
GeneralRound(d) ==
    LET dep == d.rules_dep
        acc == ScanOf(dep, d.name_map)
        stalled == Stalled(dep, d.name_map)
        forced == IF stalled THEN ForcedAtStall(d.safe, dep) ELSE <<>>
    IN  [d EXCEPT !.name_map = acc.name_map \cup NamesOf(forced),
                  !.signature_list = @ \o acc.placed \o forced,
                  !.error_rules = IF stalled THEN @ \o GeneralStallReport(dep) ELSE @,
                  !.rules_dep = IF stalled THEN <<>> ELSE acc.new]

\* The general loop is over ("End of sort", 367).
GeneralExit(d) == [d EXCEPT !.pc = "assemble"]

\* The tests of lines 370 and 382 left out: the header would have both blocks
\* whatever the reports hold.
ErrorBlocksAlways(safe, duplicate_rules, error_rules) ==
    <<[block |-> "Duplicates rules",
       msg |-> IF safe THEN "were skipped" ELSE "exist",
       rules |-> duplicate_rules],
      [block |-> "missing dependencies",
       msg |-> IF safe THEN "were skipped due to" ELSE "are",
       rules |-> error_rules]>>

\* The error text of the header (369-393): one block per non-empty report.
ErrorBlocks(safe, duplicate_rules, error_rules) ==
    (IF duplicate_rules # <<>>
     THEN <<[block |-> "Duplicates rules",
             msg |-> IF safe THEN "were skipped" ELSE "exist",
             rules |-> duplicate_rules]>>
     ELSE <<>>)
    \o
    (IF error_rules # <<>>
     THEN <<[block |-> "missing dependencies",
             msg |-> IF safe THEN "were skipped due to" ELSE "are",
             rules |-> error_rules]>>
     ELSE <<>>)

\* header + YaraParser().dump_rule_file(signature_list) (396-408).  The
\* serializer is an external parser: the document keeps the list it is given.
Assemble(d) ==
    [d EXCEPT !.rule_file_bin =
                  <<[last_modified |-> d.last_modified,
                     query_hash |-> d.query_hash,
                     query |-> d.query,
                     error |-> ErrorBlocks(d.safe, d.duplicate_rules, d.error_rules),
                     rules |-> d.signature_list]>>,
              !.pc = "done"]

\* The next step of the computation, and the computation run to its end
\* (lines 273-408).
StepDownload(d) ==
    CASE d.pc = "dedup" ->
             IF d.i <= Len(d.signature_list) THEN DedupStep(d) ELSE DedupFinish(d)
      [] d.pc = "partition" -> Partition(d)
      [] d.pc = "sort" -> SortBuckets(d)
      [] d.pc = "private" ->
             IF d.private_rules_dep # <<>> THEN PrivateRound(d) ELSE PrivateExit(d)
      [] d.pc = "general" ->
             IF d.rules_dep # <<>> THEN GeneralRound(d) ELSE GeneralExit(d)
      [] d.pc = "assemble" -> Assemble(d)
      [] OTHER -> d

RECURSIVE RunDownload(_)
RunDownload(d) == IF d.pc = "done" THEN d ELSE RunDownload(StepDownload(d))

\* ------------------------------------------------------------------------
\* download_signatures: the cache and the lock around the computation
\* ------------------------------------------------------------------------

\* The queries and the access scopes of the requests.  Both are free text, and
\* may hold the "." that the fingerprint puts between its parts.
Queries == {"a", "a.b"}

Accesses == {"c", "b.c"}

\* STORAGE.get_signature_last_modified() (246): the time of the last change
\* of the stored signatures when the requests start, and the times it can
\* have: a save of a signature sets it to "t1".
LastModified == "t0"

Times == {"t0", "t1"}

\* The stored signatures: two revisions of rule 1, which share a name, and
\* rule 2, which depends on them.
Stored1 == Sig(1, 1, "A", <<"rule">>, <<>>)

Stored2 == Sig(1, 2, "A", <<"private", "rule">>, <<>>)

Stored3 == Sig(2, 1, "B", <<"rule">>, <<"A">>)

\* STORAGE.signature.search(query, access_control=access) (260-261): the
\* documents the query selects among those the access scope lets through.
\* Query "a" under access "b.c" matches nothing.
Matches(query, access) ==
    (IF query = "a" THEN {Stored1, Stored2} ELSE {Stored2, Stored3})
    \cap (IF access = "c" THEN {Stored1, Stored2, Stored3} ELSE {Stored3})

\* The signature that a save adds to the storage at "t1"; every query selects
\* it, under every access scope.
Stored4 == Sig(3, 1, "C", <<"rule">>, <<>>)

\* The stored signatures at a time.
StoredAt(t) ==
    {Stored1, Stored2, Stored3} \cup (IF t = "t1" THEN {Stored4} ELSE {})

\* The search when the storage was last changed at t.
MatchesAt(query, access, t) ==
    Matches(query, access) \cup (StoredAt(t) \ StoredAt(LastModified))

\* The orders in which search + multiget can return a set of documents.
OrdersOf(S) ==
    {l \in [1..Cardinality(S) -> S] : \A a, b \in 1..Len(l) : a # b => l[a] # l[b]}

\* sha256(f'{query}.{access}.{last_modified}').hexdigest() (248): the digest
\* is taken to be one-to-one, and stands as the text it is computed from.
QueryHash(query, access, last_modified) ==
    query \o "." \o access \o "." \o last_modified

Hashes ==
    {QueryHash(q, a, t) : q \in Queries, a \in Accesses, t \in Times}

\* Lock(f"{query_hash}.yar", 30) (255): the name of the lock.
LockName(query_hash) == query_hash \o ".yar"

\* No value: a cache miss, no response yet.
None == <<>>

\* make_file_response(s, f"al_yara_signatures_{query_hash[:7]}.yar", len(s),
\* content_type="text/yara") (211-213, 412-415).
FileResponse(s, query_hash) ==
    <<[data |-> s, name |-> query_hash, content_type |-> "text/yara"]>>

\* _get_cached_signatures (206-217): None on a miss, and None too when the
\* read of the cache raises, which is logged and swallowed.
GetCachedSignatures(signature_cache, query_hash, raises) ==
    IF raises THEN None
    ELSE IF signature_cache[query_hash] = None THEN None
    ELSE FileResponse(signature_cache[query_hash], query_hash)

\* The first look left out: every request would go for the lock.
FirstLookSkipped(signature_cache, query_hash, raises) == None

\* The first look at the cache, before the lock (251).
FirstLook(signature_cache, query_hash, raises) ==
    GetCachedSignatures(signature_cache, query_hash, raises)

\* The second look left out: a request that has the lock would always compute.
SecondLookSkipped(signature_cache, query_hash, raises) == None

\* The second look at the cache, under the lock (256).
SecondLook(signature_cache, query_hash, raises) ==
    GetCachedSignatures(signature_cache, query_hash, raises)

\* A lock that never makes a request wait.
LockAlwaysFree(locks, name) == TRUE

\* Lock.__enter__ (255): the lock can be taken when nobody holds it.
LockFree(locks, name) == locks[name] = 0

\* The lock service of the design (acquire blocks up to the timeout, then
\* fails): the wait can time out when another request holds the lock.
LockTimedOut(locks, name) == locks[name] # 0

\* The error of the lock caught and passed over: the request would go on
\* without the lock.
LockErrorSwallowed(q) == [q EXCEPT !.pc = "check2", !.timeout = TRUE]

\* Nothing catches an exception of Lock.__enter__ (255): it leaves the
\* handler, and the request fails before anything of the with block has run.
LockErrorPropagates(q) ==
    [q EXCEPT !.pc = "failed", !.fault = TRUE, !.timeout = TRUE]

\* A with block that would keep the lock when it is left.
NotReleased(locks, name) == locks

\* Lock.__exit__: leaving the with block, by return or by exception.
Released(locks, name) == [locks EXCEPT ![name] = 0]

\* A save before the rules are dumped: the cache would get the header alone.
SavedHeaderOnly(signature_cache, query_hash, rule_file_bin) ==
    [signature_cache EXCEPT
        ![query_hash] = <<[rule_file_bin[1] EXCEPT !.rules = <<>>]>>]

\* signature_cache.save(query_hash, rule_file_bin) (410).
Saved(signature_cache, query_hash, rule_file_bin) ==
    [signature_cache EXCEPT ![query_hash] = rule_file_bin]

\* ------------------------------------------------------------------------
\* change_status
\* ------------------------------------------------------------------------

\* The status lists of assemblyline.odm.models.signature, as the design names
\* them: the deployed statuses, the draft statuses (the three that line 152
\* lists), and the status of a superseded signature.
DEPLOYED_STATUSES == {"DEPLOYED", "NOISY"}

DRAFT_STATUSES == {"TESTING", "DISABLED", "INVALID"}

STALE_STATUSES == {"STALE"}

\* The statuses a stored signature can have, and the <status> of the URL,
\* which is any text.
AlStatuses == DEPLOYED_STATUSES \cup DRAFT_STATUSES \cup STALE_STATUSES

UrlStatuses == AlStatuses \cup {"BOGUS"}

\* The stored signatures of the status calls: the revisions of rule "s1" and
\* one revision of rule "s2".  A key is <<sid, rev>>, for f"{sid}r.{rev}"; the
\* rule ids have one width ("%s_%06d"), so that the prefix search id:{sid}*
\* selects the revisions of sid.
StatusSids == {"s1", "s2"}

StatusKeys == {<<"s1", rev>> : rev \in 1..MaxRev} \cup {<<"s2", 1>>}

\* A stored signature: of its fields the calls read and write the status.
Doc(al_status) == [al_status |-> al_status]

\* A call that has not started.  pc is the position in the handler, data the
\* document read at line 128, others the documents of line 155 still to be
\* saved, code the HTTP status of the response (0: none yet); before is the
\* storage when the call read it, after the calls that had returned then.
NoChg ==
    [pc |-> "idle", sid |-> "", rev |-> 0, status |-> "", admin |-> FALSE,
     accessible |-> FALSE, data |-> <<>>, others |-> {}, code |-> 0,
     before |-> <<>>, after |-> {}]

\* Lines 118-126: the status is not one that can be applied, or the user may
\* not apply it.
StatusRefused(status, admin) ==
    \/ status \notin DEPLOYED_STATUSES \cup DRAFT_STATUSES
    \/ ~admin /\ status \in DEPLOYED_STATUSES

\* No transition refused.
NeverBlocked(al_status, status) == FALSE

\* Lines 134-146: a stale signature can only go to a draft status, a
\* deployed one cannot go to a draft status.
TransitionBlocked(al_status, status) ==
    \/ al_status \in STALE_STATUSES /\ status \notin DRAFT_STATUSES
    \/ al_status \in DEPLOYED_STATUSES /\ status \in DRAFT_STATUSES

\* Lines 113-146: the arguments, the read of the signature, the refusals.
ChgGot(signatures, sid, rev, status, admin, accessible, done) ==
    LET c == [NoChg EXCEPT !.sid = sid, !.rev = rev, !.status = status,
                           !.admin = admin, !.accessible = accessible,
                           !.before = signatures, !.after = done]
        data == signatures[<<sid, rev>>]
    IN  IF StatusRefused(status, admin)
        THEN [c EXCEPT !.pc = "done", !.code = 403]
        ELSE IF data = <<>>
        THEN [c EXCEPT !.pc = "done", !.code = 404]
        ELSE IF ~accessible \/ TransitionBlocked(data.al_status, status)
        THEN [c EXCEPT !.pc = "done", !.code = 403, !.data = data]
        ELSE [c EXCEPT !.pc = IF status \notin {"DISABLED", "INVALID", "TESTING"}
                              THEN "search" ELSE "save",
                       !.data = data]

\* The search left out: no other revision would be disabled.
NoOthers(signatures, sid, rev, status) == {}

\* Lines 153-155: "meta.al_status:{status} AND id:{sid}* AND NOT id:{key}",
\* the keys of the other revisions of the rule that have the status.
OthersInStatus(signatures, sid, rev, status) ==
    {k \in DOMAIN signatures :
        /\ k[1] = sid
        /\ k # <<sid, rev>>
        /\ signatures[k] # <<>>
        /\ signatures[k].al_status = status}

\* The save of the other revision left out.
OtherUntouched(signatures, k) == signatures

\* Lines 156-164, for one of the others: it is saved as DISABLED.
OtherDisabled(signatures, k) ==
    [signatures EXCEPT ![k] = [@ EXCEPT !.al_status = "DISABLED"]]

\* Lines 156-164, for all of them.
RECURSIVE OthersDisabled(_, _)
OthersDisabled(signatures, others) ==
    IF others = {} THEN signatures
    ELSE LET k == CHOOSE x \in others : TRUE
         IN  OthersDisabled(OtherDisabled(signatures, k), others \ {k})

\* Lines 166-170: the document read at line 128 is saved with the new status.
ChgSaved(signatures, c) ==
    [signatures EXCEPT ![<<c.sid, c.rev>>] = [c.data EXCEPT !.al_status = c.status]]

\* The saves made before the classification and the transition are looked
\* at: a call refused for them would have written.
ChgStoredBeforeChecks(signatures, got) ==
    IF got.data = <<>> THEN signatures
    ELSE ChgSaved(OthersDisabled(signatures,
                                 OthersInStatus(signatures, got.sid, got.rev,
                                                got.status)),
                  got)

\* Lines 119-172: the storage a whole call leaves, got being the call after
\* its checks: a refused call has returned before the first save (164).
ChgStored(signatures, got) ==
    IF got.pc = "done" THEN signatures
    ELSE ChgSaved(OthersDisabled(signatures,
                                 IF got.pc = "search"
                                 THEN OthersInStatus(signatures, got.sid, got.rev,
                                                     got.status)
                                 ELSE {}),
                  got)

\* ------------------------------------------------------------------------
\* State
\* ------------------------------------------------------------------------

VARIABLES
    dl,     \* the locals of one download_signatures computation
    hist,   \* what the computation went through, for the properties
    req,    \* the download_signatures requests: position, locals, history
    cache,  \* the cache store: query_hash -> rule file, or None
    locks,  \* the locks: lock name -> the request that holds it, or 0
    modified,      \* STORAGE.get_signature_last_modified()
    store,         \* STORAGE.signature: key -> document, or None
    chg,           \* the change_status calls
    adds,          \* the add_signature calls
    sets,          \* the set_signature calls
    services,      \* STORAGE.service: name -> service, or None
    svc,           \* the last call of the service API
    ingest_queue,  \* the queue of the ingester
    nq,            \* a notification queue
    ing            \* the ingest requests and the reads of the notification queue

adminVars == <<store, chg, adds, sets, services, svc>>

ingestVars == <<ingest_queue, nq, ing>>

vars == <<dl, hist, req, cache, locks, modified, adminVars, ingestVars>>

ReqIds == 1..NReq

\* A request that has not arrived.  pc is the position in the handler; check1
\* and check2 are what the two looks at the cache gave ("hit", "miss",
\* "error"); held, fetched and saved tell whether the request took the lock,
\* ran the fetch, wrote the cache; fault whether one of its calls raised;
\* storage_error whether the storage raised; timeout whether its wait for the
\* lock timed out; after is the set of requests that had returned when it
\* arrived.
NoReq ==
    [pc |-> "idle", query |-> "", access |-> "", safe |-> FALSE,
     last_modified |-> "", query_hash |-> "", rule_file_bin |-> None,
     response |-> None, check1 |-> "none", check2 |-> "none",
     held |-> FALSE, fetched |-> FALSE, saved |-> FALSE, fault |-> FALSE,
     storage_error |-> FALSE, timeout |-> FALSE, after |-> {}]

\* No signature handler but download_signatures is called.
NoAdmin ==
    /\ store = <<>>
    /\ chg = <<>>
    /\ adds = <<>>
    /\ sets = <<>>
    /\ services = <<>>
    /\ svc = <<>>

\* Nothing is ingested.
NoIngest ==
    /\ ingest_queue = <<>>
    /\ nq = <<>>
    /\ ing = <<>>

NoRequests ==
    /\ req = [r \in ReqIds |-> NoReq]
    /\ modified = LastModified
    /\ cache = [h \in Hashes |-> None]
    /\ locks = [n \in {LockName(h) : h \in Hashes} |-> 0]

\* fetched: the search result; per pass: seed, the names resolved when the
\* pass starts; in, the sorted dependency bucket; stall, whether the pass
\* stalled, and then stalled, the documents left, resolved, the names resolved
\* at that moment, report, what the stall added to error_rules; out, what the
\* pass added to signature_list.
NoHist ==
    [fetched |-> <<>>,
     private_seed |-> {}, private_in |-> <<>>, private_stall |-> FALSE,
     private_stalled |-> <<>>, private_resolved |-> {}, private_report |-> <<>>,
     private_out |-> <<>>,
     general_seed |-> {}, general_in |-> <<>>, general_stall |-> FALSE,
     general_stalled |-> <<>>, general_resolved |-> {}, general_report |-> <<>>,
     general_out |-> <<>>]

NoComputation ==
    /\ dl = [Fetched("", "", "", FALSE, <<>>) EXCEPT !.pc = "idle"]
    /\ hist = NoHist

\* ------------------------------------------------------------------------
\* The computation, step by step
\* ------------------------------------------------------------------------

DoDedupStep ==
    /\ dl.pc = "dedup"
    /\ dl.i <= Len(dl.signature_list)
    /\ dl' = DedupStep(dl)
    /\ UNCHANGED <<hist, req, cache, locks>>
    /\ UNCHANGED <<modified, adminVars, ingestVars>>

DoDedupFinish ==
    /\ dl.pc = "dedup"
    /\ dl.i > Len(dl.signature_list)
    /\ dl' = DedupFinish(dl)
    /\ UNCHANGED <<hist, req, cache, locks>>
    /\ UNCHANGED <<modified, adminVars, ingestVars>>

DoPartition ==
    /\ dl.pc = "partition"
    /\ dl' = Partition(dl)
    /\ UNCHANGED <<hist, req, cache, locks>>
    /\ UNCHANGED <<modified, adminVars, ingestVars>>

DoSortBuckets ==
    /\ dl.pc = "sort"
    /\ dl' = SortBuckets(dl)
    /\ hist' = [hist EXCEPT !.private_seed = dl'.name_map,
                            !.private_in = dl'.private_rules_dep,
                            !.general_in = dl'.rules_dep]
    /\ UNCHANGED <<req, cache, locks>>
    /\ UNCHANGED <<modified, adminVars, ingestVars>>

DoPrivateRound ==
    /\ dl.pc = "private"
    /\ dl.private_rules_dep # <<>>
    /\ dl' = PrivateRound(dl)
    /\ hist' = IF Stalled(dl.private_rules_dep, dl.name_map)
               THEN [hist EXCEPT
                       !.private_stall = TRUE,
                       !.private_stalled = dl.private_rules_dep,
                       !.private_resolved = dl.name_map,
                       !.private_report =
                           SubSeq(dl'.error_rules, Len(dl.error_rules) + 1,
                                  Len(dl'.error_rules))]
               ELSE hist
    /\ UNCHANGED <<req, cache, locks>>
    /\ UNCHANGED <<modified, adminVars, ingestVars>>

DoPrivateExit ==
    /\ dl.pc = "private"
    /\ dl.private_rules_dep = <<>>
    /\ dl' = PrivateExit(dl)
    /\ hist' = [hist EXCEPT
                  !.private_out =
                      SubSeq(dl.signature_list,
                             Len(dl.global_rules) + Len(dl.private_rules_no_dep) + 1,
                             Len(dl.signature_list)),
                  !.general_seed = dl.name_map]
    /\ UNCHANGED <<req, cache, locks>>
    /\ UNCHANGED <<modified, adminVars, ingestVars>>

DoGeneralRound ==
    /\ dl.pc = "general"
    /\ dl.rules_dep # <<>>
    /\ dl' = GeneralRound(dl)
    /\ hist' = IF Stalled(dl.rules_dep, dl.name_map)
               THEN [hist EXCEPT
                       !.general_stall = TRUE,
                       !.general_stalled = dl.rules_dep,
                       !.general_resolved = dl.name_map,
                       !.general_report =
                           SubSeq(dl'.error_rules, Len(dl.error_rules) + 1,
                                  Len(dl'.error_rules))]
               ELSE hist
    /\ UNCHANGED <<req, cache, locks>>
    /\ UNCHANGED <<modified, adminVars, ingestVars>>

DoGeneralExit ==
    /\ dl.pc = "general"
    /\ dl.rules_dep = <<>>
    /\ dl' = GeneralExit(dl)
    /\ hist' = [hist EXCEPT
                  !.general_out =
                      SubSeq(dl.signature_list,
                             Len(dl.global_rules) + Len(dl.private_rules_no_dep)
                               + Len(hist.private_out) + Len(dl.rules_no_dep) + 1,
                             Len(dl.signature_list))]
    /\ UNCHANGED <<req, cache, locks>>
    /\ UNCHANGED <<modified, adminVars, ingestVars>>

DoAssemble ==
    /\ dl.pc = "assemble"
    /\ dl' = Assemble(dl)
    /\ UNCHANGED <<hist, req, cache, locks>>
    /\ UNCHANGED <<modified, adminVars, ingestVars>>

\* ------------------------------------------------------------------------
\* ResolveSpec: the whole computation on every small search result
\* ------------------------------------------------------------------------

\* The dependency lists a document of each name may have: B and C can be
\* free of dependencies, A depends on B, or on B and on D, a name no document
\* has, B depends on C or back on A.
DependsChoices(n) ==
    CASE n = "A" -> {<<"B">>, <<"B", "D">>}
      [] n = "B" -> {<<>>, <<"C">>, <<"A">>}
      [] OTHER   -> {<<>>}

ResolveUniverse ==
    {s \in [rule_id : 1..MaxId, rule_version : {1}, name : RuleNames,
            type : RuleTypes,
            depends : UNION {DependsChoices(n) : n \in RuleNames}] :
        s.depends \in DependsChoices(s.name)}

ResolveInit ==
    \E safe \in BOOLEAN, k \in 0..MaxSigs :
        \E list \in [1..k -> ResolveUniverse] :
            /\ DistinctKeys(list)
            /\ dl = Fetched("q", "h", LastModified, safe, list)
            /\ hist = [NoHist EXCEPT !.fetched = list]
            /\ NoRequests
            /\ NoAdmin
            /\ NoIngest

ResolveNext ==
    \/ DoDedupStep
    \/ DoDedupFinish
    \/ DoPartition
    \/ DoSortBuckets
    \/ DoPrivateRound
    \/ DoPrivateExit
    \/ DoGeneralRound
    \/ DoGeneralExit
    \/ DoAssemble

ResolveSpec == ResolveInit /\ [][ResolveNext]_vars

\* The handler runs its statements one after the other: a step that can be
\* taken is taken.
ResolveFairSpec == ResolveSpec /\ WF_vars(ResolveNext)

\* ------------------------------------------------------------------------
\* OrderSpec: the whole computation on documents that share rule ids (two
\* revisions of one rule) and names
\* ------------------------------------------------------------------------

OrderDepends(n) ==
    CASE n = "A" -> {<<"B">>}
      [] OTHER   -> {<<>>, <<"A">>}

OrderUniverse ==
    {s \in [rule_id : 1..MaxId, rule_version : 1..(MaxRev - 1), name : {"A", "B"},
            type : {<<"rule">>, <<"private", "rule">>},
            depends : {<<>>, <<"A">>, <<"B">>}] :
        s.depends \in OrderDepends(s.name)}

OrderInit ==
    \E safe \in BOOLEAN, k \in 0..MaxSigs :
        \E list \in [1..k -> OrderUniverse] :
            /\ DistinctKeys(list)
            /\ dl = Fetched("q", "h", LastModified, safe, list)
            /\ hist = [NoHist EXCEPT !.fetched = list]
            /\ NoRequests
            /\ NoAdmin
            /\ NoIngest

OrderSpec == OrderInit /\ [][ResolveNext]_vars

\* ------------------------------------------------------------------------
\* DedupSpec: the safe branch alone (273-290), on documents that share names
\* ------------------------------------------------------------------------

DedupUniverse ==
    [rule_id : 1..(MaxId - 1), rule_version : 1..MaxRev, name : {"X", "Y", ""},
     type : {<<"rule">>}, depends : {<<>>}]

DedupInit ==
    \E k \in 0..MaxSigs :
        \E list \in [1..k -> DedupUniverse] :
            /\ DistinctKeys(list)
            /\ dl = Fetched("q", "h", LastModified, TRUE, list)
            /\ hist = [NoHist EXCEPT !.fetched = list]
            /\ NoRequests
            /\ NoAdmin
            /\ NoIngest

DedupNext ==
    \/ DoDedupStep
    \/ DoDedupFinish

DedupSpec == DedupInit /\ [][DedupNext]_vars

\* ------------------------------------------------------------------------
\* Spec: the requests
\* ------------------------------------------------------------------------

Returned == {r \in ReqIds : req[r].pc = "done"}

\* Lines 241-248: the arguments, the access scope of the user, the time of
\* the last change, the fingerprint.
Arrive(r) ==
    /\ req[r].pc = "idle"
    /\ \E query \in Queries, access \in Accesses, safe \in BOOLEAN :
           req' = [req EXCEPT ![r] =
                      [@ EXCEPT !.pc = "check1",
                                !.query = query, !.access = access, !.safe = safe,
                                !.last_modified = modified,
                                !.query_hash = QueryHash(query, access, modified),
                                !.after = Returned]]
    /\ UNCHANGED <<dl, hist, cache, locks>>
    /\ UNCHANGED <<modified, adminVars, ingestVars>>

\* Lines 251-253: the first look at the cache; a response is returned.
FirstCheck(r) ==
    /\ req[r].pc = "check1"
    /\ \E raises \in BOOLEAN :
           LET response == FirstLook(cache, req[r].query_hash, raises)
           IN  req' = [req EXCEPT ![r] =
                          IF response # None
                          THEN [@ EXCEPT !.pc = "done", !.response = response,
                                         !.check1 = "hit"]
                          ELSE [@ EXCEPT !.pc = "lock",
                                         !.check1 = IF raises THEN "error" ELSE "miss",
                                         !.fault = @ \/ raises]]
    /\ UNCHANGED <<dl, hist, cache, locks>>
    /\ UNCHANGED <<modified, adminVars, ingestVars>>

\* Line 255: the request waits here until the lock of its fingerprint is free.
Acquire(r) ==
    /\ req[r].pc = "lock"
    /\ LockFree(locks, LockName(req[r].query_hash))
    /\ locks' = [locks EXCEPT ![LockName(req[r].query_hash)] = r]
    /\ req' = [req EXCEPT ![r] = [@ EXCEPT !.pc = "check2", !.held = TRUE]]
    /\ UNCHANGED <<dl, hist, cache>>
    /\ UNCHANGED <<modified, adminVars, ingestVars>>

\* Line 255: the wait for the lock times out; the request fails.
AcquireTimesOut(r) ==
    /\ req[r].pc = "lock"
    /\ LockTimedOut(locks, LockName(req[r].query_hash))
    /\ req' = [req EXCEPT ![r] = LockErrorPropagates(@)]
    /\ UNCHANGED <<dl, hist, cache, locks>>
    /\ UNCHANGED <<modified, adminVars, ingestVars>>

\* Lines 256-258: the second look, under the lock; returning leaves the with
\* block, which releases the lock.
SecondCheck(r) ==
    /\ req[r].pc = "check2"
    /\ \E raises \in BOOLEAN :
           LET response == SecondLook(cache, req[r].query_hash, raises)
           IN  IF response # None
               THEN /\ req' = [req EXCEPT ![r] =
                                  [@ EXCEPT !.pc = "done", !.response = response,
                                            !.check2 = "hit"]]
                    /\ locks' = Released(locks, LockName(req[r].query_hash))
               ELSE /\ req' = [req EXCEPT ![r] =
                                  [@ EXCEPT !.pc = "fetch",
                                            !.check2 = IF raises THEN "error" ELSE "miss",
                                            !.fault = @ \/ raises]]
                    /\ UNCHANGED locks
    /\ UNCHANGED <<dl, hist, cache>>
    /\ UNCHANGED <<modified, adminVars, ingestVars>>

\* Lines 260-408: search and multiget return the matching documents in some
\* order, and the rule file is computed from them.
Fetch(r) ==
    /\ req[r].pc = "fetch"
    /\ \E list \in OrdersOf(MatchesAt(req[r].query, req[r].access, modified)) :
           req' = [req EXCEPT ![r] =
                      [@ EXCEPT !.pc = "save", !.fetched = TRUE,
                                !.rule_file_bin =
                                    RunDownload(Fetched(req[r].query, req[r].query_hash,
                                                        req[r].last_modified,
                                                        req[r].safe, list)).rule_file_bin]]
    /\ UNCHANGED <<dl, hist, cache, locks>>
    /\ UNCHANGED <<modified, adminVars, ingestVars>>

\* The error of the storage caught, and the computation run on an empty list:
\* the request would save and return a rule file without rules.
FetchFailsSwallowed(r) ==
    /\ req[r].pc = "fetch"
    /\ req' = [req EXCEPT ![r] =
                  [@ EXCEPT !.pc = "save", !.fetched = TRUE, !.fault = TRUE,
                            !.storage_error = TRUE,
                            !.rule_file_bin =
                                RunDownload(Fetched(req[r].query, req[r].query_hash,
                                                    req[r].last_modified,
                                                    req[r].safe, <<>>)).rule_file_bin]]
    /\ UNCHANGED <<dl, hist, cache, locks>>
    /\ UNCHANGED <<modified, adminVars, ingestVars>>

\* Lines 260-262: the storage raises; the exception leaves the with block,
\* which releases the lock, and the request fails.
FetchFails(r) ==
    /\ req[r].pc = "fetch"
    /\ req' = [req EXCEPT ![r] =
                  [@ EXCEPT !.pc = "failed", !.fetched = TRUE, !.fault = TRUE,
                            !.storage_error = TRUE]]
    /\ locks' = Released(locks, LockName(req[r].query_hash))
    /\ UNCHANGED <<dl, hist, cache>>
    /\ UNCHANGED <<modified, adminVars, ingestVars>>

\* Line 410: the rule file is written to the cache.
Save(r) ==
    /\ req[r].pc = "save"
    /\ cache' = Saved(cache, req[r].query_hash, req[r].rule_file_bin)
    /\ req' = [req EXCEPT ![r] = [@ EXCEPT !.pc = "return", !.saved = TRUE]]
    /\ UNCHANGED <<dl, hist, locks>>
    /\ UNCHANGED <<modified, adminVars, ingestVars>>

\* Line 410: the cache store raises; the lock is released, the request fails.
SaveFails(r) ==
    /\ req[r].pc = "save"
    /\ req' = [req EXCEPT ![r] = [@ EXCEPT !.pc = "failed", !.fault = TRUE]]
    /\ locks' = Released(locks, LockName(req[r].query_hash))
    /\ UNCHANGED <<dl, hist, cache>>
    /\ UNCHANGED <<modified, adminVars, ingestVars>>

\* Lines 412-415: the response is returned, which leaves the with block and
\* releases the lock.
Return(r) ==
    /\ req[r].pc = "return"
    /\ req' = [req EXCEPT ![r] =
                  [@ EXCEPT !.pc = "done",
                            !.response = FileResponse(req[r].rule_file_bin,
                                                      req[r].query_hash)]]
    /\ locks' = Released(locks, LockName(req[r].query_hash))
    /\ UNCHANGED <<dl, hist, cache>>
    /\ UNCHANGED <<modified, adminVars, ingestVars>>

Init ==
    /\ NoComputation
    /\ NoRequests
    /\ NoAdmin
    /\ NoIngest

Next ==
    \E r \in ReqIds :
        \/ Arrive(r)
        \/ FirstCheck(r)
        \/ Acquire(r)
        \/ AcquireTimesOut(r)
        \/ SecondCheck(r)
        \/ Fetch(r)
        \/ FetchFails(r)
        \/ Save(r)
        \/ SaveFails(r)
        \/ Return(r)

Spec == Init /\ [][Next]_vars

\* ------------------------------------------------------------------------
\* WriteSpec: the requests, while a handler saves a signature
\* ------------------------------------------------------------------------

\* STORAGE.save_signature (91, 164, 579): the storage has one more signature
\* and a new time of last change.
WriteSignature ==
    /\ modified = LastModified
    /\ modified' = "t1"
    /\ UNCHANGED <<dl, hist, req, cache, locks, adminVars, ingestVars>>

WriteNext ==
    \/ \E r \in ReqIds :
           \/ Arrive(r)
           \/ FirstCheck(r)
           \/ Acquire(r)
           \/ AcquireTimesOut(r)
           \/ SecondCheck(r)
           \/ Fetch(r)
           \/ FetchFails(r)
           \/ Save(r)
           \/ SaveFails(r)
           \/ Return(r)
    \/ WriteSignature

WriteSpec == Init /\ [][WriteNext]_vars

\* ------------------------------------------------------------------------
\* StatusSpec, DeployedSpec: change_status calls, one at a time
\* ------------------------------------------------------------------------

\* Only change_status is called.
NoDownload ==
    /\ NoComputation
    /\ NoRequests
    /\ NoIngest
    /\ adds = <<>>
    /\ sets = <<>>
    /\ services = <<>>
    /\ svc = <<>>

\* One whole call (99-172); chg holds the call, with the storage as it was.
ChangeStatus ==
    \E sid \in StatusSids, rev \in 1..MaxRev, status \in UrlStatuses,
       admin \in BOOLEAN, accessible \in BOOLEAN :
        LET got == ChgGot(store, sid, rev, status, admin, accessible, {})
        IN  /\ <<sid, rev>> \in StatusKeys
            /\ chg' = IF got.pc = "done" THEN <<got>>
                      ELSE <<[got EXCEPT !.pc = "done", !.code = 200]>>
            /\ store' = ChgStored(store, got)
            /\ UNCHANGED <<dl, hist, req, cache, locks, modified, adds, sets, services, svc,
                   ingestVars>>

\* Any stored statuses for the revisions of rule "s1", of which a key can
\* have no signature; the revision of rule "s2" is deployed.
StatusInit ==
    /\ store \in [StatusKeys -> {Doc(a) : a \in AlStatuses} \cup {<<>>}]
    /\ store[<<"s2", 1>>] \in {Doc(a) : a \in DEPLOYED_STATUSES}
    /\ chg = <<NoChg>>
    /\ NoDownload

StatusSpec == StatusInit /\ [][ChangeStatus]_vars

\* The revisions of a rule that have a deployed status.
DeployedOf(signatures, sid) ==
    {k \in DOMAIN signatures :
        /\ k[1] = sid
        /\ signatures[k] # <<>>
        /\ signatures[k].al_status \in DEPLOYED_STATUSES}

\* A storage in which no rule has two revisions with a deployed status.
DeployedInit ==
    /\ StatusInit
    /\ \A sid \in StatusSids : Cardinality(DeployedOf(store, sid)) <= 1

DeployedSpec == DeployedInit /\ [][ChangeStatus]_vars

\* ------------------------------------------------------------------------
\* StatusRaceSpec: change_status calls on one rule at the same time
\* ------------------------------------------------------------------------

CallIds == 1..NCalls

ChgReturned == {c \in CallIds : chg[c].pc = "done"}

\* Lines 113-146: the call reads the signature it names, and is refused or
\* goes on.
ChgGet(c) ==
    /\ chg[c].pc = "idle"
    /\ \E rev \in 1..MaxRev, status \in {"DEPLOYED", "TESTING"},
          admin \in BOOLEAN, accessible \in BOOLEAN :
           chg' = [chg EXCEPT ![c] =
                      ChgGot(store, "s1", rev, status, admin, accessible, ChgReturned)]
    /\ UNCHANGED <<dl, hist, req, cache, locks, modified, store, adds, sets, services, svc,
                   ingestVars>>

\* Lines 153-155: the search of the other revisions with the status, and the
\* multiget of what it found.
ChgSearch(c) ==
    /\ chg[c].pc = "search"
    /\ chg' = [chg EXCEPT ![c] =
                  [@ EXCEPT !.pc = "save",
                            !.others = OthersInStatus(store, chg[c].sid, chg[c].rev,
                                                      chg[c].status)]]
    /\ UNCHANGED <<dl, hist, req, cache, locks, modified, store, adds, sets, services, svc,
                   ingestVars>>

\* Lines 156-164: one of the others is saved as DISABLED.
ChgSaveOther(c) ==
    /\ chg[c].pc = "save"
    /\ \E k \in chg[c].others :
           /\ store' = OtherDisabled(store, k)
           /\ chg' = [chg EXCEPT ![c] = [@ EXCEPT !.others = @ \ {k}]]
    /\ UNCHANGED <<dl, hist, req, cache, locks, modified, adds, sets, services, svc,
                   ingestVars>>

\* Lines 166-170: the signature of the call is saved with its new status.
ChgSave(c) ==
    /\ chg[c].pc = "save"
    /\ chg[c].others = {}
    /\ store' = ChgSaved(store, chg[c])
    /\ chg' = [chg EXCEPT ![c] = [@ EXCEPT !.pc = "done", !.code = 200]]
    /\ UNCHANGED <<dl, hist, req, cache, locks, modified, adds, sets, services, svc,
                   ingestVars>>

\* The revisions of rule "s1" are stored, each deployed or in test.
StatusRaceInit ==
    /\ store \in [StatusKeys -> {Doc("TESTING"), Doc("DEPLOYED")}]
    /\ store[<<"s2", 1>>] = Doc("DEPLOYED")
    /\ chg = [c \in CallIds |-> NoChg]
    /\ NoDownload

StatusRaceNext ==
    \E c \in CallIds :
        \/ ChgGet(c)
        \/ ChgSearch(c)
        \/ ChgSaveOther(c)
        \/ ChgSave(c)

StatusRaceSpec == StatusRaceInit /\ [][StatusRaceNext]_vars

\* ------------------------------------------------------------------------
\* AddSpec: add_signature calls
\* ------------------------------------------------------------------------

\* Line 13: the organisation of the configuration.
ORGANISATION == "A"

\* data['meta']['organisation'] of the requests.
Organisations == {"A", "B"}

\* data['name'] of the requests.
AddNames == {"n1", "n2"}

\* The keys "%s_%06dr.1" of the signatures add_signature saves, as pairs of
\* the organisation and the number.
AddKeys == Organisations \X (1..MaxId)

\* Line 55: STORAGE.get_signature_last_id(org), the largest number of the
\* stored signatures of the organisation, 0 when it has none.
LastId(signatures, org) ==
    LET ids == {k[2] : k \in {j \in AddKeys : j[1] = org /\ signatures[j] # <<>>}}
    IN  IF ids = {} THEN 0 ELSE CHOOSE i \in ids : \A j \in ids : j <= i

\* A call of add_signature that has not started.
NoAdd ==
    [pc |-> "idle", organisation |-> "", name |-> "", new_id |-> 0,
     code |-> 0, checked |-> FALSE, before |-> <<>>, after |-> {}]

AddReturned == {c \in CallIds : adds[c].pc = "done"}

\* Line 67 and line 71: the key of the signature of the call.
AddKey(a) == <<a.organisation, a.new_id>>

\* Lines 54-76: the call reads the last id of ORGANISATION and takes the
\* next one; it is refused when the user may not see the classification, when
\* a user who is no admin adds a global rule, or when the rule is not valid.
AddRead(c) ==
    /\ adds[c].pc = "idle"
    /\ LastId(store, ORGANISATION) + 1 <= MaxId
    /\ \E organisation \in Organisations, name \in AddNames,
          accessible \in BOOLEAN, is_admin \in BOOLEAN, global \in BOOLEAN,
          valid \in BOOLEAN :
           adds' = [adds EXCEPT ![c] =
                      [pc |-> IF accessible /\ (is_admin \/ ~global) /\ valid
                              THEN "check" ELSE "done",
                       organisation |-> organisation,
                       name |-> name,
                       new_id |-> LastId(store, ORGANISATION) + 1,
                       code |-> IF accessible /\ (is_admin \/ ~global) /\ valid
                                THEN 0 ELSE 403,
                       checked |-> FALSE,
                       before |-> store,
                       after |-> AddReturned]]
    /\ UNCHANGED <<dl, hist, req, cache, locks, modified, store, chg, sets, services, svc,
                   ingestVars>>

\* The search for the name left out: the call goes on to the save.
AddCheckSkipped(c) ==
    /\ adds[c].pc = "check"
    /\ adds' = [adds EXCEPT ![c] = [@ EXCEPT !.pc = "save", !.checked = TRUE]]
    /\ UNCHANGED <<dl, hist, req, cache, locks, modified, store, chg, sets, services, svc,
                   ingestVars>>

\* Lines 77-88: "name:{name} AND NOT _yz_rk:{sid}*", a signature of another
\* rule id has the name: the call is refused.
AddCheck(c) ==
    /\ adds[c].pc = "check"
    /\ adds' = [adds EXCEPT ![c] =
                   IF \E k \in AddKeys :
                          /\ k # AddKey(adds[c])
                          /\ store[k] # <<>>
                          /\ store[k].name = adds[c].name
                   THEN [@ EXCEPT !.pc = "done", !.code = 403, !.checked = TRUE]
                   ELSE [@ EXCEPT !.pc = "save", !.checked = TRUE]]
    /\ UNCHANGED <<dl, hist, req, cache, locks, modified, store, chg, sets, services, svc,
                   ingestVars>>

\* Lines 90-92: the signature is saved under its key, and the call answers
\* success with the rule id.
AddSave(c) ==
    /\ adds[c].pc = "save"
    /\ store' = [store EXCEPT ![AddKey(adds[c])] = [name |-> adds[c].name]]
    /\ adds' = [adds EXCEPT ![c] = [@ EXCEPT !.pc = "done", !.code = 200]]
    /\ UNCHANGED <<dl, hist, req, cache, locks, modified, chg, sets, services, svc,
                   ingestVars>>

\* No signature is stored, or one signature of ORGANISATION is.
AddInit ==
    /\ store \in {[k \in AddKeys |-> <<>>],
                  [k \in AddKeys |-> IF k = <<ORGANISATION, 1>>
                                     THEN [name |-> "n1"] ELSE <<>>]}
    /\ adds = [c \in CallIds |-> NoAdd]
    /\ chg = <<>>
    /\ sets = <<>>
    /\ services = <<>>
    /\ svc = <<>>
    /\ NoIngest
    /\ NoRequests
    /\ NoComputation

AddNext ==
    \E c \in CallIds :
        \/ AddRead(c)
        \/ AddCheck(c)
        \/ AddSave(c)

AddSpec == AddInit /\ [][AddNext]_vars

\* ------------------------------------------------------------------------
\* SetSpec: set_signature calls, and change_status calls between their steps
\* ------------------------------------------------------------------------

\* The rule text of a signature, which set_signature replaces.
Bodies == {"b1", "b2"}

\* A stored signature with its status and its rule text.
SetDoc(al_status, body) == [al_status |-> al_status, body |-> body]

\* Line 561: STORAGE.get_last_rev_for_id(sid), the largest revision stored
\* for the rule id, 0 when there is none.
LastRev(signatures, sid) ==
    LET revs == {k[2] : k \in {j \in DOMAIN signatures :
                                  j[1] = sid /\ signatures[j] # <<>>}}
    IN  IF revs = {} THEN 0 ELSE CHOOSE i \in revs : \A j \in revs : j <= i

\* A call of set_signature that has not started.  key is the key the data
\* will be saved under, overwritten what was stored under it when the call
\* saved, last_rev the last revision of the rule id when the call read the
\* signature; alone says that no other call has written since.
NoSet ==
    [pc |-> "idle", sid |-> "", rev |-> 0, key |-> <<>>, data |-> <<>>,
     old_data |-> <<>>, bump |-> FALSE, code |-> 0, overwritten |-> <<>>,
     last_rev |-> 0, alone |-> TRUE]

\* Another call has written: the calls of set_signature that are between
\* their read and their save have not run alone.
Disturbed(calls, writer) ==
    [c \in DOMAIN calls |->
        IF c # writer /\ calls[c].pc \in {"bump", "save"}
        THEN [calls[c] EXCEPT !.alone = FALSE] ELSE calls[c]]

\* Lines 536-558: the signature is read; the call is refused when there is
\* none (404), when the classifications or the type do not allow the user to
\* write it, or when the status of the data is not the stored one (403).
SetRead(c) ==
    /\ sets[c].pc = "idle"
    /\ \E rev \in 1..MaxRev, al_status \in {"TESTING", "DEPLOYED"}, body \in Bodies,
          allowed \in BOOLEAN, bump \in BOOLEAN :
           LET old_data == store[<<"s1", rev>>]
               q == [NoSet EXCEPT !.sid = "s1", !.rev = rev, !.key = <<"s1", rev>>,
                                  !.data = SetDoc(al_status, body),
                                  !.old_data = old_data, !.bump = bump,
                                  !.last_rev = LastRev(store, "s1")]
           IN  sets' = [sets EXCEPT ![c] =
                          IF old_data = <<>>
                          THEN [q EXCEPT !.pc = "done", !.code = 404]
                          ELSE IF ~allowed \/ old_data.al_status # al_status
                          THEN [q EXCEPT !.pc = "done", !.code = 403]
                          ELSE [q EXCEPT !.pc = IF bump THEN "bump" ELSE "save"]]
    /\ UNCHANGED <<dl, hist, req, cache, locks, modified, store, chg, adds,
                   services, svc, ingestVars>>

\* Lines 560-569: YaraParser.require_bump said yes: the data gets the
\* revision after the last one of the rule id, and the status TESTING.
SetBump(c) ==
    /\ sets[c].pc = "bump"
    /\ LastRev(store, sets[c].sid) + 1 <= MaxRev
    /\ sets' = [sets EXCEPT ![c] =
                   [@ EXCEPT !.pc = "save",
                             !.key = <<sets[c].sid, LastRev(store, sets[c].sid) + 1>>,
                             !.data = [@ EXCEPT !.al_status = "TESTING"]]]
    /\ UNCHANGED <<dl, hist, req, cache, locks, modified, store, chg, adds,
                   services, svc, ingestVars>>

\* Lines 571-589: the rule is validated; a valid one is saved under the key,
\* one that is not is refused.
SetSave(c) ==
    /\ sets[c].pc = "save"
    /\ \E valid \in BOOLEAN :
           IF valid
           THEN /\ store' = [store EXCEPT ![sets[c].key] = sets[c].data]
                /\ sets' = [Disturbed(sets, c) EXCEPT ![c] =
                               [@ EXCEPT !.pc = "done", !.code = 200,
                                         !.overwritten = store[sets[c].key]]]
           ELSE /\ store' = store
                /\ sets' = [sets EXCEPT ![c] = [@ EXCEPT !.pc = "done", !.code = 403]]
    /\ UNCHANGED <<dl, hist, req, cache, locks, modified, chg, adds,
                   services, svc, ingestVars>>

\* A whole call of change_status on rule "s1" by an admin.
SetChangeStatus ==
    /\ \E rev \in 1..MaxRev, status \in {"DEPLOYED", "DISABLED"} :
           LET got == ChgGot(store, "s1", rev, status, TRUE, TRUE, {})
           IN  /\ chg' = IF got.pc = "done" THEN <<got>>
                         ELSE <<[got EXCEPT !.pc = "done", !.code = 200]>>
               /\ store' = ChgStored(store, got)
               /\ sets' = IF got.pc = "done" THEN sets ELSE Disturbed(sets, 0)
    /\ UNCHANGED <<dl, hist, req, cache, locks, modified, adds, services, svc,
                   ingestVars>>

\* Revision 1 of rule "s1" is stored, in test or deployed; revision 2 can be.
SetInit ==
    /\ \E a1 \in {"TESTING", "DEPLOYED"}, a2 \in {"TESTING", "DEPLOYED", ""} :
           store = [k \in StatusKeys |->
                       IF k = <<"s1", 1>> THEN SetDoc(a1, "b1")
                       ELSE IF k = <<"s1", 2>> /\ a2 # "" THEN SetDoc(a2, "b1")
                       ELSE IF k = <<"s2", 1>> THEN SetDoc("DEPLOYED", "b1")
                       ELSE <<>>]
    /\ sets = <<NoSet>>
    /\ chg = <<NoChg>>
    /\ adds = <<>>
    /\ services = <<>>
    /\ svc = <<>>
    /\ NoIngest
    /\ NoRequests
    /\ NoComputation

SetNext ==
    \/ \E c \in DOMAIN sets :
           \/ SetRead(c)
           \/ SetBump(c)
           \/ SetSave(c)
    \/ SetChangeStatus

SetSpec == SetInit /\ [][SetNext]_vars

\* ------------------------------------------------------------------------
\* ServiceSpec: the service API, one call at a time
\* ------------------------------------------------------------------------

\* The service names of the URLs and of the bodies.
ServiceNames == {"Extract", "Unpack"}

\* The bodies of the requests (request.json): a configuration, with the
\* field name or without it.
ServiceData ==
    [name : ServiceNames, timeout : {"60", "90"}] \cup [timeout : {"60", "90"}]

\* dict.update: the fields of data replace or extend those of current.
Updated(current, data) ==
    [f \in DOMAIN current \cup DOMAIN data |->
        IF f \in DOMAIN data THEN data[f] ELSE current[f]]

\* No call of the service API was made.
NoSvc ==
    [op |-> "none", servicename |-> "", data |-> None, code |-> 0, before |-> <<>>]

\* service.py 59-64: the service is saved under the name of the URL when
\* nothing is stored under it; 400 when something is.
add_service ==
    \E servicename \in ServiceNames, data \in ServiceData :
        /\ svc' = [op |-> "add_service", servicename |-> servicename, data |-> data,
                   code |-> IF services[servicename] = None THEN 200 ELSE 400,
                   before |-> services]
        /\ services' = IF services[servicename] = None
                       THEN [services EXCEPT ![servicename] = data]
                       ELSE services
        /\ UNCHANGED <<dl, hist, req, cache, locks, modified, store, chg, adds, sets,
                       ingestVars>>

\* service.py 245-251: the service stored under the name is deleted; 404
\* when there is none.
remove_service ==
    \E servicename \in ServiceNames :
        /\ svc' = [op |-> "remove_service", servicename |-> servicename, data |-> None,
                   code |-> IF services[servicename] = None THEN 404 ELSE 200,
                   before |-> services]
        /\ services' = [services EXCEPT ![servicename] = None]
        /\ UNCHANGED <<dl, hist, req, cache, locks, modified, store, chg, adds, sets,
                       ingestVars>>

\* service.py 297-308: 404 when no service is stored under the name, 400
\* when the body has a name that is not the name of the URL; else the stored
\* service is updated with the body and saved under the name of the URL.
set_service ==
    \E servicename \in ServiceNames, data \in ServiceData :
        LET current_service == services[servicename]
            code == IF current_service = None THEN 404
                    ELSE IF "name" \in DOMAIN data /\ servicename # data.name THEN 400
                    ELSE 200
        IN  /\ svc' = [op |-> "set_service", servicename |-> servicename, data |-> data,
                       code |-> code, before |-> services]
            /\ services' = IF code = 200
                           THEN [services EXCEPT
                                    ![servicename] = Updated(current_service, data)]
                           ELSE services
            /\ UNCHANGED <<dl, hist, req, cache, locks, modified, store, chg, adds, sets,
                           ingestVars>>

\* No service is stored.
ServiceInit ==
    /\ services = [n \in ServiceNames |-> None]
    /\ svc = NoSvc
    /\ sets = <<>>
    /\ store = <<>>
    /\ chg = <<>>
    /\ adds = <<>>
    /\ NoIngest
    /\ NoRequests
    /\ NoComputation

ServiceNext ==
    \/ add_service
    \/ remove_service
    \/ set_service

ServiceSpec == ServiceInit /\ [][ServiceNext]_vars

\* ------------------------------------------------------------------------
\* IngestSpec: the ingest API and its queues
\* ------------------------------------------------------------------------

\* The ingest_id values the API hands out.
IngestIds == {"i1", "i2", "i3"}

\* The three forms of an ingest request: a hash, a url, a file.
IngestKinds == {"sha256", "url", "bin"}

\* The messages pushed to the notification queue.
Messages == {"m1", "m2"}

\* No request of the ingest API was made; pushed and first are the history
\* of the notification queue: all the messages pushed, in order, and the
\* number of them the API had returned before its last answer.
NoIng ==
    [op |-> "none", code |-> 0, resp |-> None, queue_before |-> <<>>,
     used |-> {}, pushed |-> <<>>, first |-> 0]

\* A submission without the ingest_id of the request.
SubmissionWithoutId(kind, name, ingest_id) ==
    [metadata |-> [test |-> kind, ingest_id |-> ""],
     files |-> <<[name |-> name]>>]

\* The submission the ingest API makes of a request.
SubmissionOf(kind, name, ingest_id) ==
    [metadata |-> [test |-> kind, ingest_id |-> ingest_id],
     files |-> <<[name |-> name]>>]

\* A queue that puts a message before the others.
PushFront(queue, message) == <<message>> \o queue

\* NamedQueue.push: the message goes behind the others.
Push(queue, message) == Append(queue, message)

\* POST /api/v4/ingest/: a request that is accepted is given a new
\* ingest_id, and one submission is put on the ingest queue; a request that
\* is not accepted is answered 400.
Ingest ==
    /\ ing.used # IngestIds
    /\ \E kind \in IngestKinds, name \in {"f1", "f2"}, accepted \in BOOLEAN,
          ingest_id \in IngestIds \ ing.used :
           IF accepted
           THEN /\ ingest_queue' = Push(ingest_queue, SubmissionOf(kind, name, ingest_id))
                /\ ing' = [ing EXCEPT !.op = "ingest", !.code = 200,
                                      !.resp = [ingest_id |-> ingest_id],
                                      !.queue_before = ingest_queue,
                                      !.used = @ \cup {ingest_id}]
           ELSE /\ ingest_queue' = ingest_queue
                /\ ing' = [ing EXCEPT !.op = "ingest", !.code = 400,
                                      !.resp = None,
                                      !.queue_before = ingest_queue]
    /\ UNCHANGED <<dl, hist, req, cache, locks, modified, adminVars, nq>>

\* ingest_queue.pop(): the ingester takes the oldest submission.
IngestQueuePop ==
    /\ ingest_queue # <<>>
    /\ ingest_queue' = Tail(ingest_queue)
    /\ ing' = [ing EXCEPT !.op = "pop", !.code = 0, !.resp = Head(ingest_queue),
                          !.queue_before = ingest_queue]
    /\ UNCHANGED <<dl, hist, req, cache, locks, modified, adminVars, nq>>

\* nq.push(test_message).
NqPush ==
    /\ Len(ing.pushed) < MaxMsgs
    /\ \E message \in Messages :
           /\ nq' = Push(nq, message)
           /\ ing' = [ing EXCEPT !.op = "push", !.code = 0, !.resp = None,
                                 !.pushed = Append(@, message)]
    /\ UNCHANGED <<dl, hist, req, cache, locks, modified, adminVars, ingest_queue>>

\* GET /api/v4/ingest/get_message/<queue>/: the oldest message of the queue
\* is taken and returned, nothing when the queue is empty.
GetMessage ==
    /\ nq' = IF nq = <<>> THEN nq ELSE Tail(nq)
    /\ ing' = [ing EXCEPT !.op = "get_message", !.code = 200,
                          !.resp = IF nq = <<>> THEN None ELSE <<Head(nq)>>,
                          !.first = Len(ing.pushed) - Len(nq)]
    /\ UNCHANGED <<dl, hist, req, cache, locks, modified, adminVars, ingest_queue>>

\* GET /api/v4/ingest/get_message_list/<queue>/: all the messages of the
\* queue are taken and returned, the oldest first.
GetMessageList ==
    /\ nq' = <<>>
    /\ ing' = [ing EXCEPT !.op = "get_message_list", !.code = 200,
                          !.resp = nq,
                          !.first = Len(ing.pushed) - Len(nq)]
    /\ UNCHANGED <<dl, hist, req, cache, locks, modified, adminVars, ingest_queue>>

\* ingest_queue.purge() and nq.delete(): the queues are empty.
IngestInit ==
    /\ ingest_queue = <<>>
    /\ nq = <<>>
    /\ ing = NoIng
    /\ NoAdmin
    /\ NoRequests
    /\ NoComputation

IngestNext ==
    \/ Ingest
    \/ IngestQueuePop
    \/ NqPush
    \/ GetMessage
    \/ GetMessageList

IngestSpec == IngestInit /\ [][IngestNext]_vars

\* ------------------------------------------------------------------------
\* Properties of the computation
\* ------------------------------------------------------------------------

\* How many times x occurs in a list.
Count(seq, x) == Cardinality({k \in 1..Len(seq) : seq[k] = x})

\* The rule ids of a list never decrease.
AscendingRuleIds(seq) ==
    \A a, b \in 1..Len(seq) : a < b => seq[a].rule_id <= seq[b].rule_id

\* Every dependency name of every document of out[from..to] is either in seed
\* or the name of a document placed before it in out.
DependenciesPrecede(out, from, to, seed) ==
    \A k \in from..to :
        \A j \in 1..Len(out[k].depends) :
            \/ out[k].depends[j] \in seed
            \/ \E b \in 1..(k - 1) : out[b].name = out[k].depends[j]

\* The rules of the finished rule file.
Bundle == dl.rule_file_bin[1].rules

\* C1: with safe=true, every dependency name of every rule of the bundle is
\* the name of a rule placed earlier in the bundle.
C1_SafeBundleOrdered ==
    (dl.pc = "done" /\ dl.safe) =>
        DependenciesPrecede(Bundle, 1, Len(Bundle), {})

\* C2, as claimed: for both values of safe, every document of the output of a
\* pass has each dependency name in the names seeded before the pass or held
\* by a document before it in that output.
C2_PassOutputOrdered ==
    dl.pc = "done" =>
        /\ DependenciesPrecede(hist.private_out, 1, Len(hist.private_out),
                               hist.private_seed)
        /\ DependenciesPrecede(hist.general_out, 1, Len(hist.general_out),
                               hist.general_seed)

\* The documents a pass placed because they were ready are the first ones of
\* its output: what a stall forces in comes last.
ReadyCount(out, stall, stalled) ==
    IF stall /\ ~dl.safe THEN Len(out) - Len(stalled) ELSE Len(out)

\* C2, amended: with safe=true every document of the output of a pass, and
\* with safe=false every document the pass placed as ready (not the ones it
\* forced in after a stall), has each dependency name in the names seeded
\* before the pass or held by a document before it in that output.
C2_ReadyOutputOrdered ==
    dl.pc = "done" =>
        /\ DependenciesPrecede(hist.private_out, 1,
               ReadyCount(hist.private_out, hist.private_stall, hist.private_stalled),
               hist.private_seed)
        /\ DependenciesPrecede(hist.general_out, 1,
               ReadyCount(hist.general_out, hist.general_stall, hist.general_stalled),
               hist.general_seed)

\* A pass took two rounds: its second document waited for the first one, whose
\* name was not seeded.
C2_Witness ==
    /\ dl.pc = "done"
    /\ ~hist.general_stall
    /\ Len(hist.general_out) >= 2
    /\ \E j \in 1..Len(hist.general_out[2].depends) :
           /\ hist.general_out[2].depends[j] \notin hist.general_seed
           /\ hist.general_out[2].depends[j] = hist.general_out[1].name
    /\ hist.general_out[2].rule_id < hist.general_out[1].rule_id

\* The output of a pass holds each document of its bucket once, except the
\* documents dropped, and nothing else.
IsPermutationLess(out, in, dropped) ==
    \A x \in Range(in) \cup Range(out) :
        Count(out, x) = Count(in, x) - Count(dropped, x)

\* C3: the output of each pass is a permutation of its dependency bucket with
\* safe=false, and of the bucket less the documents left at the stall with
\* safe=true: each once, none invented.
C3_PassOutputPermutation ==
    dl.pc = "done" =>
        /\ IsPermutationLess(hist.private_out, hist.private_in,
                             IF dl.safe THEN hist.private_stalled ELSE <<>>)
        /\ IsPermutationLess(hist.general_out, hist.general_in,
                             IF dl.safe THEN hist.general_stalled ELSE <<>>)

\* A safe private pass that placed one document and stalled on another.
C3_Witness ==
    /\ dl.pc = "done"
    /\ dl.safe
    /\ hist.private_stall
    /\ Len(hist.private_out) >= 1
    /\ Len(hist.private_stalled) >= 1
    /\ Len(hist.private_in) = Len(hist.private_out) + Len(hist.private_stalled)

\* The record kept for a name: the last of the fetched records of that name
\* that have the highest revision.
LastHighest(fetched, name) ==
    LET of == {k \in 1..Len(fetched) : fetched[k].name = name}
        top == {k \in of : \A j \in of : fetched[j].rule_version <= fetched[k].rule_version}
    IN  fetched[CHOOSE k \in top : \A j \in top : j <= k]

\* C7: in safe mode, the record kept for each name of the fetched collection
\* has the highest revision of the records of that name, and is the last seen
\* of those with that revision.
C7_HighestRevisionKept ==
    (dl.safe /\ dl.pc = "partition") =>
        \A name \in NamesOf(hist.fetched) \ {""} :
            /\ Count([k \in 1..Len(dl.signature_list) |-> dl.signature_list[k].name],
                     name) = 1
            /\ \A k \in 1..Len(dl.signature_list) :
                   dl.signature_list[k].name = name =>
                       dl.signature_list[k] = LastHighest(hist.fetched, name)

\* Three records of one name, the highest revision twice: the later of the
\* two is kept.
C7_Witness ==
    /\ dl.safe
    /\ dl.pc = "partition"
    /\ Len(hist.fetched) = 3
    /\ hist.fetched[1].name = "X"
    /\ hist.fetched[2].name = "X"
    /\ hist.fetched[3].name = "X"
    /\ hist.fetched[1].rule_version = 2
    /\ hist.fetched[2].rule_version = 2
    /\ hist.fetched[3].rule_version = 1
    /\ dl.signature_list = <<hist.fetched[2]>>

\* C8: in safe mode the duplicate report has one entry for every record that
\* lost to another record of its name: for each name, as many entries as there
\* are fetched records of that name, less the one kept.
C8_EveryLoserReported ==
    (dl.safe /\ dl.pc = "partition") =>
        \A name \in NamesOf(hist.fetched) \ {""} :
            Count(dl.duplicate_rules, name) =
                Count([k \in 1..Len(hist.fetched) |-> hist.fetched[k].name], name) - 1

\* The dependency names of the documents left at a stall that are not resolved.
UnsatisfiedOf(stalled, resolved) ==
    LET missing(n) == n \notin resolved
    IN  Flatten([k \in 1..Len(stalled) |-> SelectSeq(stalled[k].depends, missing)])

\* C9: at a stall, in either pass, the unresolved-dependency report gets from
\* each document left exactly its dependency names that are not resolved.
C9_UnsatisfiedNamesReported ==
    /\ hist.private_stall =>
           hist.private_report =
               UnsatisfiedOf(hist.private_stalled, hist.private_resolved)
    /\ hist.general_stall =>
           hist.general_report =
               UnsatisfiedOf(hist.general_stalled, hist.general_resolved)

\* The last n elements of a list.
LastN(seq, n) == SubSeq(seq, Len(seq) - n + 1, Len(seq))

\* What C10 says of one pass.
StallPolicy(stall, stalled, in, out) ==
    stall =>
        IF dl.safe
        THEN \A k \in 1..Len(stalled) : Count(Bundle, stalled[k]) = 0
        ELSE /\ Len(out) >= Len(stalled)
             /\ LastN(out, Len(stalled)) = stalled
             /\ AscendingRuleIds(stalled)
             /\ \A k \in 1..Len(stalled) : Count(Bundle, stalled[k]) = 1

\* C10: when a pass stalls, with safe=true none of the documents left is in
\* the bundle, and with safe=false they are all placed at the end of the
\* output of the pass, after the documents that were ready, in the order of
\* their rule ids.
C10_StallPolicy ==
    dl.pc = "done" =>
        /\ StallPolicy(hist.private_stall, hist.private_stalled,
                       hist.private_in, hist.private_out)
        /\ StallPolicy(hist.general_stall, hist.general_stalled,
                       hist.general_in, hist.general_out)

\* A pass without safe that placed a ready document and then forced in the
\* one it stalled on.
C10_Witness ==
    /\ dl.pc = "done"
    /\ ~dl.safe
    /\ hist.general_stall
    /\ Len(hist.general_stalled) >= 1
    /\ Len(hist.general_out) > Len(hist.general_stalled)

\* The names of the rules of a list, in order.
NameList(seq) == [k \in 1..Len(seq) |-> seq[k].name]

\* The one document of a list that has this name.
Named(seq, name) == seq[CHOOSE k \in 1..Len(seq) : seq[k].name = name]

\* The fetched documents are a chain: A depends on B, B depends on C, C has
\* no dependencies, each of them private or standard.
IsChain(fetched) ==
    /\ Len(fetched) = 3
    /\ NamesOf(fetched) = {"A", "B", "C"}
    /\ Named(fetched, "A").depends = <<"B">>
    /\ Named(fetched, "B").depends = <<"C">>
    /\ Named(fetched, "C").depends = <<>>
    /\ \A k \in 1..3 : fetched[k].type \in {<<"rule">>, <<"private", "rule">>}

\* C11: for a chain A -> B -> C of private or standard documents, whatever
\* the order of the fetch, the rule ids and the types, the bundle is C, B, A.
C11_ChainOrder ==
    (dl.pc = "done" /\ IsChain(hist.fetched)) =>
        NameList(Bundle) = <<"C", "B", "A">>

\* The place of a document in the bundle: global documents, then private
\* documents without and with dependencies, then standard documents without
\* and with dependencies.
BundleRank(s) ==
    IF StartsWith(s.type, "global") THEN 0
    ELSE IF StartsWith(s.type, "private")
         THEN (IF Len(s.depends) = 0 THEN 1 ELSE 2)
         ELSE (IF Len(s.depends) = 0 THEN 3 ELSE 4)

\* C12: the bundle is the global documents, then the output of the private
\* pass (private documents without dependencies, then the resolved ones), then
\* the output of the general pass; every global document comes before every
\* private and every standard document, whatever depends on what.
C12_BundleLayout ==
    dl.pc = "done" =>
        /\ \A a, b \in 1..Len(Bundle) :
               a < b => BundleRank(Bundle[a]) <= BundleRank(Bundle[b])
        /\ \A k \in 1..Len(dl.signature_list) :
               /\ BundleRank(dl.signature_list[k]) = 0 => k <= Len(dl.global_rules)
               /\ k <= Len(dl.global_rules) => Bundle[k] = dl.global_rules[k]
        /\ (~dl.safe) =>
               \A k \in 1..Len(hist.fetched) :
                   BundleRank(hist.fetched[k]) = 0 => Count(Bundle, hist.fetched[k]) = 1

\* A global document that depends on a standard document, with a private
\* document between them: the global one is first all the same.
C12_Witness ==
    /\ dl.pc = "done"
    /\ Len(Bundle) = 3
    /\ BundleRank(Bundle[1]) = 0
    /\ BundleRank(Bundle[2]) \in {1, 2}
    /\ BundleRank(Bundle[3]) = 3
    /\ Bundle[1].depends = <<Bundle[3].name>>
    /\ Bundle[1].rule_id > Bundle[3].rule_id

\* What a round does to the documents it was given (dep, then dep2) and to
\* signature_list (out, then out2): it places at least one of them, or it
\* leaves none for a next round.
RoundProgress(dep, dep2, out, out2) ==
    \/ /\ Len(dep2) < Len(dep)
       /\ Len(out2) - Len(out) = Len(dep) - Len(dep2)
    \/ dep2 = <<>>

\* C13: both loops terminate on every input, circular dependencies and
\* dependencies on absent names included: the computation reaches its end,
\* and every round of a loop places a document or disposes of all that are
\* left and ends the pass.
C13_LoopsTerminate ==
    /\ <>(dl.pc = "done")
    /\ [][/\ (dl.pc = "private" /\ dl.private_rules_dep # <<>>) =>
                 RoundProgress(dl.private_rules_dep, dl'.private_rules_dep,
                               dl.signature_list, dl'.signature_list)
          /\ (dl.pc = "general" /\ dl.rules_dep # <<>>) =>
                 RoundProgress(dl.rules_dep, dl'.rules_dep,
                               dl.signature_list, dl'.signature_list)]_vars

\* The computation ended after the general pass stalled on two documents that
\* depend on each other.
C13_Witness ==
    /\ dl.pc = "done"
    /\ hist.general_stall
    /\ \E a, b \in 1..Len(hist.general_stalled) :
           /\ hist.general_stalled[a].depends = <<hist.general_stalled[b].name>>
           /\ hist.general_stalled[b].depends = <<hist.general_stalled[a].name>>
           /\ a # b

\* The computation on the same documents fetched in the order l gives the rule
\* order and the two reports of this computation.
SameFor(l) ==
    LET o == RunDownload(Fetched(dl.query, dl.query_hash, dl.last_modified,
                                 dl.safe, l))
    IN  /\ o.signature_list = dl.signature_list
        /\ o.duplicate_rules = dl.duplicate_rules
        /\ o.error_rules = dl.error_rules

\* C15, as claimed: whatever the order in which the storage returns a
\* collection of documents, the rule order, the duplicate report and the
\* unresolved report are the same.
C15_OrderIndependent ==
    dl.pc = "done" =>
        \A l \in OrdersOf(Range(hist.fetched)) : SameFor(l)

\* No two documents of a list have the same rule id, the same name.
DistinctRuleIds(l) ==
    \A a, b \in 1..Len(l) : a # b => l[a].rule_id # l[b].rule_id

DistinctNames(l) ==
    \A a, b \in 1..Len(l) : a # b => l[a].name # l[b].name

\* C15, amended: the same, for collections in which no two documents have the
\* same rule id and, with safe=true, no two have the same name.
C15_OrderIndependentDistinct ==
    (/\ dl.pc = "done"
     /\ DistinctRuleIds(hist.fetched)
     /\ dl.safe => DistinctNames(hist.fetched)) =>
        \A l \in OrdersOf(Range(hist.fetched)) : SameFor(l)

\* Three documents with three rule ids, two of them of one bucket and fetched
\* against the order of their rule ids, all in the bundle.
C15_Witness ==
    /\ dl.pc = "done"
    /\ Len(hist.fetched) = 3
    /\ DistinctRuleIds(hist.fetched)
    /\ hist.fetched[1].rule_id > hist.fetched[2].rule_id
    /\ BundleRank(hist.fetched[1]) = BundleRank(hist.fetched[2])
    /\ Len(Bundle) = 3
    /\ Bundle # hist.fetched

\* The standard documents with dependencies of which nothing is unmet once
\* the names of the forced private documents are resolved, though something
\* was unmet before.
WaitingForForced(fetched) ==
    {k \in 1..Len(fetched) :
        /\ BundleRank(fetched[k]) = 4
        /\ \A j \in 1..Len(fetched[k].depends) :
               fetched[k].depends[j] \in
                   hist.private_resolved \cup NamesOf(hist.private_stalled)
        /\ \E j \in 1..Len(fetched[k].depends) :
               fetched[k].depends[j] \notin hist.private_resolved}

\* C29: with safe=false, the names of the private documents forced in after
\* a stall of the private pass are resolved names when the general pass
\* starts, and a standard document whose unmet dependencies are all such
\* names is placed as ready in the general pass and is not left at a stall.
C29_ForcedPrivateNamesResolve ==
    (dl.pc = "done" /\ ~dl.safe /\ hist.private_stall) =>
        /\ NamesOf(hist.private_stalled) \subseteq hist.general_seed
        /\ \A k \in WaitingForForced(hist.fetched) :
               /\ Count(hist.general_out, hist.fetched[k]) = 1
               /\ Count(hist.general_stalled, hist.fetched[k]) = 0
               /\ \A n \in 1..Len(hist.general_report) :
                      hist.general_report[n] = hist.fetched[k].name =>
                          \E m \in 1..Len(hist.general_stalled) :
                              hist.general_stalled[m].name = hist.fetched[k].name

\* A standard document that depends on a private document forced in after
\* the stall of the private pass, placed by a general pass that did not stall.
C29_Witness ==
    /\ dl.pc = "done"
    /\ ~dl.safe
    /\ hist.private_stall
    /\ ~hist.general_stall
    /\ WaitingForForced(hist.fetched) # {}
    /\ Len(hist.general_out) >= 1
    /\ dl.error_rules = hist.private_report

\* The private documents among the fetched ones whose dependencies are all
\* names that only standard documents have.
DependsOnStandardOnly(fetched) ==
    {k \in 1..Len(fetched) :
        /\ BundleRank(fetched[k]) = 2
        /\ \A j \in 1..Len(fetched[k].depends) :
               \A m \in 1..Len(fetched) :
                   fetched[m].name = fetched[k].depends[j] =>
                       BundleRank(fetched[m]) \in {3, 4}}

\* C14: during the private pass the resolved names are names of global
\* documents, of private documents without dependencies and of private
\* documents placed in the pass, which is what signature_list holds then; and
\* a private document whose dependencies only standard documents have is left
\* at the stall of the private pass.
C14_PrivateSeedIsPrivate ==
    /\ dl.pc = "private" => dl.name_map \subseteq NamesOf(dl.signature_list)
    /\ (dl.pc = "done" /\ ~dl.safe) =>
           \A k \in DependsOnStandardOnly(hist.fetched) :
               /\ hist.private_stall
               /\ Count(hist.private_stalled, hist.fetched[k]) = 1

\* C16: with safe=false every fetched document is in the bundle once, the
\* documents that share a name too, and the duplicate report is empty: the
\* header has no duplicate block.
C16_NoDedupWithoutSafe ==
    (dl.pc = "done" /\ ~dl.safe) =>
        /\ Len(Bundle) = Len(hist.fetched)
        /\ \A k \in 1..Len(hist.fetched) : Count(Bundle, hist.fetched[k]) = 1
        /\ dl.duplicate_rules = <<>>
        /\ \A k \in 1..Len(dl.rule_file_bin[1].error) :
               dl.rule_file_bin[1].error[k].block # "Duplicates rules"

\* Without safe, three documents of one name, all in the bundle.
C16_Witness ==
    /\ dl.pc = "done"
    /\ ~dl.safe
    /\ Len(hist.fetched) = 3
    /\ Cardinality(NamesOf(hist.fetched)) = 1
    /\ Len(Bundle) = 3

\* ------------------------------------------------------------------------
\* Properties of the requests
\* ------------------------------------------------------------------------

WithHash(h) == {r \in ReqIds : req[r].query_hash = h}

Finished(r) == req[r].pc \in {"done", "failed"}

\* The requests of a fingerprint whose first look at the cache gave nothing:
\* they go for the lock.
Contenders(h) == {r \in WithHash(h) : req[r].check1 \in {"miss", "error"}}

\* What C4 says of the contenders of one fingerprint: one of them fetches and
\* computes, and each other one takes the lock, finds the rule file in the
\* cache at its second look and returns it.
OneComputation(h) ==
    /\ Cardinality({r \in Contenders(h) : req[r].fetched}) <= 1
    /\ \A r \in Contenders(h) :
           Finished(r) =>
               /\ \E w \in Contenders(h) : req[w].fetched
               /\ ~req[r].fetched =>
                      /\ req[r].pc = "done"
                      /\ req[r].held
                      /\ req[r].check2 = "hit"
                      /\ req[r].response = FileResponse(cache[h], h)

NoFault(h) == \A r \in WithHash(h) : ~req[r].fault

EarlierCalls(r) ==
    {e \in req[r].after :
        /\ req[e].query = req[r].query
        /\ req[e].access = req[r].access
        /\ req[e].last_modified = req[r].last_modified}

\* What C5 says of a call r made after a call of the same fingerprint has
\* returned: r returns the same document, from its first look at the cache.
SecondCallFromCache(r) ==
    \A e \in EarlierCalls(r) :
        /\ req[r].pc \notin {"idle", "check1"} =>
               /\ req[r].pc = "done"
               /\ req[r].check1 = "hit"
               /\ req[r].response = req[e].response
        /\ ~req[r].held
        /\ ~req[r].fetched
        /\ ~req[r].saved

NoReadError(h) ==
    \A r \in WithHash(h) : req[r].check1 # "error" /\ req[r].check2 # "error"

Computing(r) == req[r].pc \in {"fetch", "save", "return"}

\* Fetch and cache write happen under the lock of the fingerprint, after a
\* second look at the cache that gave nothing.
ComputesUnderLock ==
    \A r \in ReqIds :
        /\ Computing(r) =>
               /\ locks[LockName(req[r].query_hash)] = r
               /\ req[r].check2 \in {"miss", "error"}
        /\ (req[r].fetched \/ req[r].saved) =>
               /\ req[r].held
               /\ req[r].check1 \in {"miss", "error"}
               /\ req[r].check2 \in {"miss", "error"}

\* The cache is written only by a request that holds the lock and has fetched.
WritesUnderLock ==
    \A h \in Hashes :
        cache'[h] # cache[h] =>
            \E r \in WithHash(h) :
                /\ locks[LockName(h)] = r
                /\ req[r].fetched
                /\ cache'[h] = req[r].rule_file_bin

\* Request r releases its lock in this step.
Releases(r) ==
    /\ req[r].held
    /\ locks[LockName(req[r].query_hash)] = r
    /\ locks'[LockName(req[r].query_hash)] # r

\* C6, as claimed: a request fetches and writes the cache only under the lock
\* of its fingerprint and after its second look at the cache missed, and it
\* releases the lock only after the cache write.
C6_ProtocolOrder ==
    /\ []ComputesUnderLock
    /\ [][/\ WritesUnderLock
          /\ \A r \in ReqIds :
                 Releases(r) => cache'[req[r].query_hash] # None]_vars

\* C6, amended: the same, but the lock is also released, with nothing
\* written, when the fetch or the cache write raises; otherwise it is released
\* after the request's own cache write, or after a second look that found the
\* rule file another request wrote.
C6_ProtocolOrderOrFailure ==
    /\ []ComputesUnderLock
    /\ [][/\ WritesUnderLock
          /\ \A r \in ReqIds :
                 Releases(r) =>
                     \/ req'[r].pc = "failed" /\ req'[r].fault
                     \/ /\ cache'[req[r].query_hash] # None
                        /\ req'[r].pc = "done"
                        /\ req[r].saved \/ req'[r].check2 = "hit"]_vars

\* A request went through the whole order and released the lock, while
\* another request of its fingerprint waits for it.
C6_Witness ==
    \E r, o \in ReqIds :
        /\ req[r].pc = "done"
        /\ req[r].check1 = "miss" /\ req[r].check2 = "miss"
        /\ req[r].fetched /\ req[r].saved
        /\ cache[req[r].query_hash] = req[r].rule_file_bin
        /\ locks[LockName(req[r].query_hash)] = 0
        /\ o # r
        /\ req[o].pc = "lock"
        /\ req[o].query_hash = req[r].query_hash

\* The rule file of a request: the header with no error text, and no rule.
HeaderOnly(r) ==
    <<[last_modified |-> req[r].last_modified,
       query_hash |-> req[r].query_hash,
       query |-> req[r].query,
       error |-> <<>>,
       rules |-> <<>>]>>

\* Request r ran the fetch and its query matched nothing.
FetchedNothing(r) ==
    /\ req[r].fetched
    /\ req[r].pc \in {"save", "return", "done"}
    /\ Matches(req[r].query, req[r].access) = {}

\* C17: when the query matches no document, the computation does not fail:
\* the request computes the header alone, without error text and without
\* rule, writes it to the cache and returns it.
C17_EmptyResultHeaderOnly ==
    \A r \in ReqIds :
        FetchedNothing(r) =>
            /\ req[r].rule_file_bin = HeaderOnly(r)
            /\ req[r].pc = "return" =>
                   /\ req[r].saved
                   /\ cache[req[r].query_hash] = HeaderOnly(r)
            /\ req[r].pc = "done" =>
                   /\ req[r].saved
                   /\ req[r].response = FileResponse(HeaderOnly(r), req[r].query_hash)

\* A request whose query matched nothing returned the header alone, and the
\* cache holds it.
C17_Witness ==
    \E r \in ReqIds :
        /\ FetchedNothing(r)
        /\ req[r].pc = "done"
        /\ req[r].response # None
        /\ req[r].response[1].data[1].rules = <<>>
        /\ req[r].response[1].data[1].error = <<>>
        /\ cache[req[r].query_hash] = req[r].response[1].data

\* The rule files the computation can end with for the arguments of r.
CompleteBundles(r) ==
    {RunDownload(Fetched(req[r].query, req[r].query_hash, req[r].last_modified,
                         req[r].safe, l)).rule_file_bin :
        l \in OrdersOf(Matches(req[r].query, req[r].access))}

\* The entry of h is the whole rule file of a request that wrote it, which is
\* what that request returns.
CompleteEntry(h) ==
    \E r \in WithHash(h) :
        /\ req[r].saved
        /\ cache[h] = req[r].rule_file_bin
        /\ cache[h] \in CompleteBundles(r)
        /\ req[r].pc = "done" => req[r].response = FileResponse(cache[h], h)

\* C18: the cache entry of a fingerprint is at every moment absent or the
\* complete rule file of a request that computed it, which that request
\* returns; and a request writes the cache at most once.
C18_CacheEntryComplete ==
    /\ [](\A h \in Hashes : cache[h] = None \/ CompleteEntry(h))
    /\ [][\A h \in Hashes :
              cache'[h] # cache[h] =>
                  \E r \in WithHash(h) :
                      /\ ~req[r].saved
                      /\ req'[r].saved
                      /\ \A o \in ReqIds \ {r} : req'[o] = req[o]]_vars

\* The cache holds a rule file with rules in it, and the request that wrote
\* it has returned it.
C18_Witness ==
    \E r \in ReqIds :
        /\ req[r].pc = "done"
        /\ req[r].saved
        /\ cache[req[r].query_hash] = req[r].rule_file_bin
        /\ Len(req[r].rule_file_bin[1].rules) = 2
        /\ req[r].response = FileResponse(cache[req[r].query_hash], req[r].query_hash)

\* C19: a request that returns a rule file out of the cache returns one that
\* a request with its query, its access scope and its last-modified time
\* computed and wrote.
C19_NoForeignBundle ==
    \A r \in ReqIds :
        (req[r].pc = "done" /\ ~req[r].fetched) =>
            \E w \in ReqIds :
                /\ req[w].saved
                /\ req[w].query = req[r].query
                /\ req[w].access = req[r].access
                /\ req[w].last_modified = req[r].last_modified
                /\ req[r].response = FileResponse(req[w].rule_file_bin,
                                                  req[r].query_hash)

\* C20: a request whose wait for the lock timed out has failed: it does not
\* wait any longer, it never held the lock, it did not fetch or compute and
\* it returned nothing; and the step of the time-out leaves the cache and the
\* locks as they were.
C20_LockTimeoutFails ==
    /\ [](\A r \in ReqIds :
             req[r].timeout =>
                 /\ req[r].pc = "failed"
                 /\ ~req[r].held
                 /\ ~req[r].fetched
                 /\ ~req[r].saved
                 /\ req[r].rule_file_bin = None
                 /\ req[r].response = None)
    /\ [][\A r \in ReqIds :
              (~req[r].timeout /\ req'[r].timeout) =>
                  /\ cache' = cache
                  /\ locks' = locks]_vars

\* A request timed out on the lock that another request of its fingerprint
\* holds while it computes; that one then wrote the cache.
C20_Witness ==
    \E r, o \in ReqIds :
        /\ req[r].timeout
        /\ req[r].pc = "failed"
        /\ o # r
        /\ req[o].query_hash = req[r].query_hash
        /\ req[o].pc = "return"
        /\ cache[req[o].query_hash] = req[o].rule_file_bin

\* C21: a request whose search or fetch failed has failed: it returned no
\* rule file, it wrote nothing to the cache, it holds no lock, and it does
\* nothing more: the fetch is not tried again; the step of the failure leaves
\* the cache as it was.
C21_StorageFailureFails ==
    /\ [](\A r \in ReqIds :
             req[r].storage_error =>
                 /\ req[r].pc = "failed"
                 /\ ~req[r].saved
                 /\ req[r].rule_file_bin = None
                 /\ req[r].response = None
                 /\ locks[LockName(req[r].query_hash)] # r)
    /\ [][\A r \in ReqIds :
              /\ (~req[r].storage_error /\ req'[r].storage_error) => cache' = cache
              /\ req[r].storage_error => req'[r] = req[r]]_vars

\* The storage failed for a request that had taken the lock on an empty
\* cache: the request has failed, the cache is still empty and the lock free.
C21_Witness ==
    \E r \in ReqIds :
        /\ req[r].storage_error
        /\ req[r].pc = "failed"
        /\ req[r].held
        /\ req[r].check2 = "miss"
        /\ cache[req[r].query_hash] = None
        /\ locks[LockName(req[r].query_hash)] = 0

\* The time of last change a rule file was computed for, as its header says.
TimeOf(rule_file_bin) == rule_file_bin[1].last_modified

\* C30: the rule file cached under a fingerprint holds signatures as they
\* were stored at the time of last change that is part of the fingerprint:
\* whatever the interleaving of a save with the requests, no cached rule file
\* holds a signature written after that time.
C30_CachedBundleOfItsTime ==
    \A h \in Hashes :
        cache[h] # None =>
            \A k \in 1..Len(cache[h][1].rules) :
                cache[h][1].rules[k] \in StoredAt(TimeOf(cache[h]))

\* ------------------------------------------------------------------------
\* Properties of change_status
\* ------------------------------------------------------------------------

\* The status of a stored signature, "" when there is none.
StatusOf(signatures, k) ==
    IF signatures[k] = <<>> THEN "" ELSE signatures[k].al_status

\* A move the lifecycle forbids: from a stale status to one that is not a
\* draft status, from a deployed status to a draft status.
ForbiddenMove(old, new) ==
    /\ old # new
    /\ \/ old \in STALE_STATUSES /\ new \notin DRAFT_STATUSES
       \/ old \in DEPLOYED_STATUSES /\ new \in DRAFT_STATUSES

C23_OthersDisabled ==
    (/\ chg[1].pc = "done"
     /\ chg[1].code = 200
     /\ chg[1].status \in DEPLOYED_STATUSES) =>
        \A k \in StatusKeys :
            IF k = <<chg[1].sid, chg[1].rev>>
            THEN StatusOf(store, k) = chg[1].status
            ELSE k[1] = chg[1].sid =>
                     /\ StatusOf(store, k) # chg[1].status
                     /\ StatusOf(chg[1].before, k) = chg[1].status =>
                            StatusOf(store, k) = "DISABLED"

\* A call deployed a revision of a rule of which two other revisions were
\* deployed: both are disabled, the revision of the other rule is not.
C23_Witness ==
    /\ chg[1].pc = "done"
    /\ chg[1].code = 200
    /\ chg[1].sid = "s1"
    /\ chg[1].status = "DEPLOYED"
    /\ Cardinality({k \in StatusKeys :
                        /\ StatusOf(chg[1].before, k) = "DEPLOYED"
                        /\ StatusOf(store, k) = "DISABLED"}) = 2
    /\ StatusOf(store, <<"s2", 1>>) = "DEPLOYED"

\* C24: from a storage in which every rule has at most one revision with a
\* deployed status, calls run one at a time lead to a storage of which the
\* same is true.
C24_OneDeployedRevision ==
    \A sid \in StatusSids : Cardinality(DeployedOf(store, sid)) <= 1

\* Two calls have succeeded in setting two revisions of one rule to the same
\* deployed status, and both revisions have it.
BothDeployed(a, b) ==
    /\ a # b
    /\ chg[a].pc = "done" /\ chg[b].pc = "done"
    /\ chg[a].code = 200 /\ chg[b].code = 200
    /\ chg[a].sid = chg[b].sid
    /\ chg[a].rev # chg[b].rev
    /\ chg[a].status = chg[b].status
    /\ chg[a].status \in DEPLOYED_STATUSES
    /\ StatusOf(store, <<chg[a].sid, chg[a].rev>>) = chg[a].status
    /\ StatusOf(store, <<chg[b].sid, chg[b].rev>>) = chg[b].status

\* C25: two calls that set two revisions of one rule to the same deployed
\* status can both succeed and leave both revisions in that status (the
\* witness); it takes calls that run at the same time: neither had returned
\* when the other one read its signature.
C25_BothDeployedOnlyByRace ==
    \A a, b \in 1..Len(chg) :
        BothDeployed(a, b) => (a \notin chg[b].after /\ b \notin chg[a].after)

\* Both calls answered success, and both revisions, which were in test
\* before, are deployed.
C25_Witness ==
    \E a, b \in 1..Len(chg) :
        /\ BothDeployed(a, b)
        /\ StatusOf(chg[a].before, <<chg[a].sid, chg[a].rev>>) = "TESTING"
        /\ StatusOf(chg[a].before, <<chg[b].sid, chg[b].rev>>) = "TESTING"
        /\ StatusOf(chg[b].before, <<chg[b].sid, chg[b].rev>>) = "TESTING"

\* ------------------------------------------------------------------------
\* Properties of add_signature
\* ------------------------------------------------------------------------

\* The call ran alone: every other call had returned when it started, or
\* started after it had returned.
RanAlone(c) ==
    \A b \in 1..Len(adds) :
        (b # c /\ adds[b].pc # "idle") => (b \in adds[c].after \/ c \in adds[b].after)

\* C26: a successful call of add_signature that ran alone got an id that no
\* signature stored when it started had.
C26_SequentialIdsFresh ==
    \A c \in 1..Len(adds) :
        (adds[c].pc = "done" /\ adds[c].code = 200 /\ RanAlone(c)) =>
            adds[c].before[AddKey(adds[c])] = <<>>

\* C26, the calls at the same time: two calls that got the same id and
\* succeeded had not returned when the other one started.
C26_SameIdOfOneOrganisationByRace ==
    \A b, c \in 1..Len(adds) :
        (/\ b # c
         /\ adds[b].pc = "done" /\ adds[b].code = 200
         /\ adds[c].pc = "done" /\ adds[c].code = 200
         /\ adds[b].organisation = ORGANISATION
         /\ adds[c].organisation = ORGANISATION
         /\ AddKey(adds[b]) = AddKey(adds[c])) =>
            (b \notin adds[c].after /\ c \notin adds[b].after)

\* Two calls at the same time succeeded with the same id: one signature is
\* stored under it, not two.
C26_RaceReached ==
    \E b, c \in 1..Len(adds) :
        /\ b # c
        /\ adds[b].pc = "done" /\ adds[b].code = 200
        /\ adds[c].pc = "done" /\ adds[c].code = 200
        /\ adds[b].name # adds[c].name
        /\ adds[b].organisation = ORGANISATION
        /\ AddKey(adds[b]) = AddKey(adds[c])
        /\ b \notin adds[c].after /\ c \notin adds[b].after

\* ------------------------------------------------------------------------
\* Properties of the ingest API
\* ------------------------------------------------------------------------

InWithBlock(r) == req[r].pc \in {"check2", "fetch", "save", "return"}

\* C31: a lock that is held is the lock of the fingerprint of a request that
\* is inside the with block; a request that has finished, by the hit of the
\* second look, by the end of the computation or by an error of the fetch or
\* of the cache write, holds no lock, and the lock of its fingerprint can be
\* taken when no running request holds it.
C31_NoLockAfterFinish ==
    /\ \A h \in Hashes :
           locks[LockName(h)] # 0 =>
               /\ InWithBlock(locks[LockName(h)])
               /\ req[locks[LockName(h)]].query_hash = h
    /\ \A r \in ReqIds :
           req[r].pc \in {"done", "failed"} =>
               \A h \in Hashes : locks[LockName(h)] # r

\* A request took the lock and failed in the with block, on an error of the
\* storage; a request with the same fingerprint has taken the lock since.
C31_Witness ==
    \E r, s \in ReqIds :
        /\ req[r].pc = "failed"
        /\ req[r].held
        /\ req[r].storage_error
        /\ req[s].query_hash = req[r].query_hash
        /\ req[s].pc = "fetch"
        /\ locks[LockName(req[s].query_hash)] = s

\* ------------------------------------------------------------------------
\* Properties of the handlers that write signatures and services
\* ------------------------------------------------------------------------

\* C32: a call of change_status that is refused (403) or finds no signature
\* (404) leaves every stored signature as it was.
C32_RejectedWritesNothing ==
    \A c \in 1..Len(chg) :
        (chg[c].pc = "done" /\ chg[c].code # 200) => store = chg[c].before

\* An admin asked to deploy a revision the classification does not let the
\* user see, while another revision of the rule was deployed: the call was
\* refused and the other revision is still deployed.
C32_Witness ==
    /\ chg[1].pc = "done"
    /\ chg[1].code = 403
    /\ chg[1].admin
    /\ ~chg[1].accessible
    /\ chg[1].status = "DEPLOYED"
    /\ chg[1].data # <<>>
    /\ ~TransitionBlocked(chg[1].data.al_status, chg[1].status)
    /\ OthersInStatus(chg[1].before, chg[1].sid, chg[1].rev, "DEPLOYED") # {}
    /\ OthersInStatus(store, chg[1].sid, chg[1].rev, "DEPLOYED")
           = OthersInStatus(chg[1].before, chg[1].sid, chg[1].rev, "DEPLOYED")

\* C33: a call of set_signature that saves does not change the status of a
\* stored revision: what it overwrites had the status of what it saves.
C33_SetKeepsStatus ==
    \A c \in 1..Len(sets) :
        (sets[c].pc = "done" /\ sets[c].code = 200 /\ sets[c].overwritten # <<>>) =>
            sets[c].overwritten.al_status = sets[c].data.al_status

\* C33, for a call with no write of another call between its read and its
\* save: the status is kept, a bump saves a new revision in TESTING under
\* the number after the last one and overwrites nothing, and without a bump
\* the key of the request is overwritten.
C33_SetAloneKeepsStatus ==
    \A c \in 1..Len(sets) :
        (sets[c].pc = "done" /\ sets[c].code = 200 /\ sets[c].alone) =>
            IF sets[c].bump
            THEN /\ sets[c].overwritten = <<>>
                 /\ sets[c].key = <<sets[c].sid, sets[c].last_rev + 1>>
                 /\ sets[c].data.al_status = "TESTING"
            ELSE /\ sets[c].key = <<sets[c].sid, sets[c].rev>>
                 /\ sets[c].overwritten.al_status = sets[c].data.al_status

\* A stored signature of another rule id has the name of the call.
NameHeld(signatures, a) ==
    \E k \in AddKeys :
        /\ k # AddKey(a)
        /\ signatures[k] # <<>>
        /\ signatures[k].name = a.name

\* No call has started since the call returned.
LastCall(c) ==
    \A b \in 1..Len(adds) : b # c => (adds[b].pc = "idle" \/ b \in adds[c].after)

\* C34: when the calls of add_signature run one at a time, a call whose name
\* a stored signature of another rule id has is refused, a refused call
\* leaves the storage as it was, and no two stored rule ids have one name.
C34_NamesOfRuleIdsDistinct ==
    (\A c \in 1..Len(adds) : adds[c].pc # "idle" => RanAlone(c)) =>
        /\ \A c \in 1..Len(adds) :
               adds[c].pc = "done" =>
                   /\ NameHeld(adds[c].before, adds[c]) => adds[c].code = 403
                   /\ (adds[c].code # 200 /\ LastCall(c)) => store = adds[c].before
        /\ \A j, k \in AddKeys :
               (j # k /\ store[j] # <<>> /\ store[k] # <<>>) =>
                   store[j].name # store[k].name

\* A call saved a signature; the next call, with the same name and another
\* rule id, went as far as the search for the name and was refused: the
\* storage is as the first call left it.
C34_Witness ==
    \E b, c \in 1..Len(adds) :
        /\ adds[b].pc = "done" /\ adds[b].code = 200
        /\ b \in adds[c].after
        /\ adds[c].pc = "done" /\ adds[c].code = 403 /\ adds[c].checked
        /\ adds[c].name = adds[b].name
        /\ AddKey(adds[c]) # AddKey(adds[b])
        /\ store = adds[c].before
        /\ store[AddKey(adds[b])] = [name |-> adds[b].name]

\* The last call was refused and left the services as they were.
SvcRefused(code) == svc.code = code /\ services = svc.before

\* The part of C35 about what exists: add_service does not overwrite a
\* service, set_service and remove_service do not create one, and the
\* refusals leave the services as they were.
C35_NoOverwriteNoCreate ==
    /\ (svc.op = "add_service" /\ svc.before[svc.servicename] # None) =>
           SvcRefused(400)
    /\ (svc.op \in {"set_service", "remove_service"}
           /\ svc.before[svc.servicename] = None) => SvcRefused(404)
    /\ (svc.op = "set_service" /\ svc.before[svc.servicename] # None
           /\ "name" \in DOMAIN svc.data /\ svc.data.name # svc.servicename) =>
               SvcRefused(400)
    /\ svc.op \in {"set_service", "remove_service"} =>
           \A n \in ServiceNames : svc.before[n] = None => services[n] = None

\* The part of C35 about the name: a service that had a name and is still
\* stored has the same name after set_service or remove_service.
NameKept ==
    svc.op \in {"set_service", "remove_service"} =>
        \A n \in ServiceNames :
            (/\ svc.before[n] # None
             /\ services[n] # None
             /\ "name" \in DOMAIN svc.before[n]) =>
                /\ "name" \in DOMAIN services[n]
                /\ services[n].name = svc.before[n].name

\* C35: when the calls of the service API run one at a time, add_service
\* never overwrites a service, and set_service and remove_service never
\* create a service nor change the name of one.
C35_ServicesKeepNames == C35_NoOverwriteNoCreate /\ NameKept

====
